---- MODULE Spec2Model ----
(***************************************************************************)
(* Model of the sql-toolkit db package: error classification (errors.go),  *)
(* the transaction helper DB.ExecTx / DB.ExecTxOpts and the Tx wrapper     *)
(* (db/tx.go), and the hook chain (db/hooks.go).                           *)
(*                                                                         *)
(* Error values are records.  A Go error is one of                         *)
(*   [type |-> "nil"]                          the nil error               *)
(*   [type |-> "raw", name |-> n]              a driver / stdlib / caller  *)
(*                                             error, or a package sentinel*)
(*   [type |-> "DBError", Sentinel, Cause]     *DBError                    *)
(*   [type |-> "wrap", shown, inner]           fmt.Errorf("..(%v)..%w")    *)
(* The text of an error (Error()) is a sequence of tokens, so that the     *)
(* substring searches of the classifiers are computed, not assumed.        *)
(***************************************************************************)
EXTENDS Integers, Sequences, FiniteSets, TLC

(***************************************************************************)
(* Bounds                                                                  *)
(***************************************************************************)
\* number of ExecTx calls made on the DB, one after the other
MaxCalls == 2
\* number of statements a transaction body issues through its Tx
MaxStmts == 2
\* number of times a mapper is applied to its own result
MaxMaps == 2
\* number of entries of Config.Hooks
MaxHooks == 2
\* latest instant of the clock and latest deadline a caller sets
MaxTime == 3
\* largest RetryConfig.MaxAttempts tried
MaxTries == 3
\* largest number of items in a batch
MaxItems == 3

(***************************************************************************)
(* Error values                                                            *)
(***************************************************************************)
Nil == [type |-> "nil"]
Raw(n) == [type |-> "raw", name |-> n]
DBError(s, c) == [type |-> "DBError", Sentinel |-> s, Cause |-> c]
\* fmt.Errorf("sqltoolkit/db: rollback failed (%v) after original error: %w", rbErr, err)
RollbackFailed(rbErr, err) == [type |-> "wrap", shown |-> rbErr, inner |-> err]
\* fmt.Errorf("sqltoolkit/db: all %d attempts failed, last error: %w", n, lastErr)
AttemptsFailed(n, lastErr) == [type |-> "attempts", n |-> n, inner |-> lastErr]
\* fmt.Errorf("repo/user: %w", err)
RepoUserError(err) == [type |-> "repo", inner |-> err]

\* package sentinels, errors.go:14-35
ErrNotFound == Raw("ErrNotFound")
ErrDuplicateKey == Raw("ErrDuplicateKey")
ErrForeignKeyViolation == Raw("ErrForeignKeyViolation")
ErrDeadlock == Raw("ErrDeadlock")
ErrTimeout == Raw("ErrTimeout")
ErrCheckViolation == Raw("ErrCheckViolation")
ErrConnectionFailed == Raw("ErrConnectionFailed")
Sentinels == {ErrNotFound, ErrDuplicateKey, ErrForeignKeyViolation, ErrDeadlock,
              ErrTimeout, ErrCheckViolation, ErrConnectionFailed}

\* standard-library values the package compares against
sqlErrNoRows == Raw("sql.ErrNoRows")
sqlErrTxDone == Raw("sql.ErrTxDone")
context_deadline_exceeded == Raw("context.DeadlineExceeded")
context_canceled == Raw("context.Canceled")

\* errors a driver produces (vendor forms) and errors a caller produces
sqliteUnique == Raw("sqlite: UNIQUE constraint failed")
pqTextUnique == Raw("pq text: (SQLSTATE 23505)")
pqCodeDeadlock == Raw("pq.Error{Code: 40P01}")
pqCodeUnique == Raw("pq.Error{Code: 23505}")
pgxForeignKey == Raw("pgconn.PgError{Code: 23503}")
pgxUnique == Raw("pgconn.PgError{Code: 23505}")
crdbRestart == Raw("crdb: restart transaction")
mysqlDuplicate == Raw("mysql.MySQLError{Number: 1062}")
badConn == Raw("driver: bad connection")
appError == Raw("intentional failure")
transient == Raw("transient")

\* Error() of a raw error, as tokens
RawText(n) ==
    CASE n = "sqlite: UNIQUE constraint failed" -> <<"UNIQUE constraint failed", ": users.email">>
      [] n = "pq text: (SQLSTATE 23505)" -> <<"pq: duplicate key value ", "(SQLSTATE ", "23505", ")">>
      [] n = "crdb: restart transaction" -> <<"restart transaction", ": retry txn">>
      [] OTHER -> <<n>>

\* GetCode() of a raw error that has the method ("" when it has not)
RawGetCode(n) ==
    CASE n = "pq.Error{Code: 40P01}" -> "40P01"
      [] n = "pq.Error{Code: 23505}" -> "23505"
      [] OTHER -> ""
HasGetCode(n) == n \in {"pq.Error{Code: 40P01}", "pq.Error{Code: 23505}"}
\* SQLState() of a raw error that has the method
RawSQLState(n) ==
    CASE n = "pgconn.PgError{Code: 23503}" -> "23503"
      [] n = "pgconn.PgError{Code: 23505}" -> "23505"
      [] OTHER -> ""
HasSQLState(n) == n \in {"pgconn.PgError{Code: 23503}", "pgconn.PgError{Code: 23505}"}
\* Number() of a raw error that has the method
RawNumber(n) == IF n = "mysql.MySQLError{Number: 1062}" THEN 1062 ELSE 0
HasNumber(n) == n = "mysql.MySQLError{Number: 1062}"

\* (*DBError).Unwrap and the Unwrap of a %w wrapper; Nil when there is none
Unwrap(e) ==
    CASE e.type = "DBError" -> e.Cause
      [] e.type = "wrap" -> e.inner
      [] e.type = "attempts" -> e.inner
      [] e.type = "repo" -> e.inner
      [] OTHER -> Nil

\* the chain err, Unwrap(err), Unwrap(Unwrap(err)), ... that errors.Is / errors.As walk
RECURSIVE Chain(_)
Chain(e) == IF e = Nil THEN <<>> ELSE <<e>> \o Chain(Unwrap(e))

\* errors.Is(err, target); (*DBError).Is(target) is errors.Is(e.Sentinel, target)
RECURSIVE ErrorsIs(_, _)
ErrorsIs(err, target) ==
    IF err = Nil THEN FALSE
    ELSE \/ err = target
         \/ (err.type = "DBError" /\ ErrorsIs(err.Sentinel, target))
         \/ ErrorsIs(Unwrap(err), target)

\* errors.As(err, &dbe) with dbe *DBError
AsDBError(err) == \E i \in 1..Len(Chain(err)) : Chain(err)[i].type = "DBError"

\* errors.As: the first element of chain c whose position is in idx, Nil when idx is empty
FirstOf(c, idx) ==
    IF idx = {} THEN Nil ELSE c[CHOOSE i \in idx : \A j \in idx : i <= j]

IsCoder(e) == e.type = "raw" /\ HasGetCode(e.name)
IsPgxErr(e) == e.type = "raw" /\ HasSQLState(e.name)
IsMysqlErr(e) == e.type = "raw" /\ HasNumber(e.name)

SentinelText(s) == s.name

\* err.Error(), errors.go:64-69 for *DBError
RECURSIVE ErrorText(_)
ErrorText(e) ==
    CASE e.type = "nil" -> <<"<nil>">>
      [] e.type = "raw" -> RawText(e.name)
      [] e.type = "DBError" ->
            <<SentinelText(e.Sentinel), " (cause: ">> \o ErrorText(e.Cause) \o <<")">>
      [] e.type = "wrap" ->
            <<"sqltoolkit/db: rollback failed (">> \o ErrorText(e.shown)
               \o <<")", " after original error: ">> \o ErrorText(e.inner)
      [] e.type = "attempts" ->
            <<"sqltoolkit/db: all ", ToString(e.n), " attempts failed, last error: ">>
               \o ErrorText(e.inner)
      [] e.type = "repo" -> <<"repo/user: ">> \o ErrorText(e.inner)

\* strings.Contains(s, tok) for a one-token needle
Contains(s, tok) == \E i \in 1..Len(s) : s[i] = tok

\* s contains the token sequence sub as a contiguous run
ContainsSeq(s, sub) ==
    \E i \in 0..(Len(s) - Len(sub)) : \A j \in 1..Len(sub) : s[i + j] = sub[j]

\* a code spelled by a run of tokens: one token is that code, none is "",
\* several tokens spell a code that is in no table
CodeOf(toks) == IF Len(toks) = 0 THEN "" ELSE IF Len(toks) = 1 THEN toks[1] ELSE "?"

pqCodeFromString(s) ==
    LET marker == "(SQLSTATE "
        at == {i \in 1..Len(s) : s[i] = marker}
    IN IF at = {} THEN ""
       ELSE LET idx == CHOOSE i \in at : \A j \in at : j <= i
                rest == SubSeq(s, idx + 1, Len(s))
                close == {i \in 1..Len(rest) : rest[i] = ")"}
            IN IF close = {} THEN CodeOf(rest)
               ELSE CodeOf(SubSeq(rest, 1, (CHOOSE i \in close : \A j \in close : i <= j) - 1))

\* SQLSTATE 23505 taken for a check violation
mapByPGCodeUniqueAsCheck(code, cause) ==
    CASE code \in {"23505", "23514"} -> DBError(ErrCheckViolation, cause)
      [] code = "23503" -> DBError(ErrForeignKeyViolation, cause)
      [] code = "40P01" -> DBError(ErrDeadlock, cause)
      [] code = "57014" -> DBError(ErrTimeout, cause)
      [] code \in {"08000", "08003", "08006", "08001", "08004", "08007", "08P01"} ->
            DBError(ErrConnectionFailed, cause)
      [] OTHER -> Nil

mapByPGCode(code, cause) ==
    CASE code = "23505" -> DBError(ErrDuplicateKey, cause)
      [] code = "23503" -> DBError(ErrForeignKeyViolation, cause)
      [] code = "23514" -> DBError(ErrCheckViolation, cause)
      [] code = "40P01" -> DBError(ErrDeadlock, cause)
      [] code = "57014" -> DBError(ErrTimeout, cause)
      [] code \in {"08000", "08003", "08006", "08001", "08004", "08007", "08P01"} ->
            DBError(ErrConnectionFailed, cause)
      [] OTHER -> Nil

mapPQError(err) ==
    LET ch == Chain(err)
        c == FirstOf(ch, {i \in 1..Len(ch) : IsCoder(ch[i])})
    IN IF c = Nil THEN mapByPGCode(pqCodeFromString(ErrorText(err)), err)
       ELSE mapByPGCode(RawGetCode(c.name), err)

mapPGXError(err) ==
    LET ch == Chain(err)
        pge == FirstOf(ch, {i \in 1..Len(ch) : IsPgxErr(ch[i])})
    IN IF pge = Nil THEN Nil ELSE mapByPGCode(RawSQLState(pge.name), err)

mapMySQLError(err) ==
    LET ch == Chain(err)
        me == FirstOf(ch, {i \in 1..Len(ch) : IsMysqlErr(ch[i])})
    IN IF me = Nil THEN Nil
       ELSE LET n == RawNumber(me.name)
            IN CASE n = 1062 -> DBError(ErrDuplicateKey, err)
                 [] n \in {1452, 1216, 1217} -> DBError(ErrForeignKeyViolation, err)
                 [] n = 1213 -> DBError(ErrDeadlock, err)
                 [] n = 3024 -> DBError(ErrTimeout, err)
                 [] n \in {1045, 2002, 2003, 2006, 2013} -> DBError(ErrConnectionFailed, err)
                 [] OTHER -> Nil

mapSQLiteError(err) ==
    LET s == ErrorText(err)
    IN CASE Contains(s, "UNIQUE constraint failed") -> DBError(ErrDuplicateKey, err)
         [] Contains(s, "FOREIGN KEY constraint failed") -> DBError(ErrForeignKeyViolation, err)
         [] Contains(s, "CHECK constraint failed") -> DBError(ErrCheckViolation, err)
         [] Contains(s, "database is locked") -> DBError(ErrDeadlock, err)
         [] OTHER -> Nil

\* the SQLite text search tried before the PostgreSQL and MySQL classifiers
defaultMapSQLiteFirst(err) ==
    IF err = Nil THEN Nil
    ELSE IF ErrorsIs(err, sqlErrNoRows) THEN DBError(ErrNotFound, err)
    ELSE IF ErrorsIs(err, context_deadline_exceeded) \/ ErrorsIs(err, context_canceled)
         THEN DBError(ErrTimeout, err)
    ELSE IF AsDBError(err) THEN err
    ELSE IF mapSQLiteError(err) # Nil THEN mapSQLiteError(err)
    ELSE IF mapPQError(err) # Nil THEN mapPQError(err)
    ELSE IF mapPGXError(err) # Nil THEN mapPGXError(err)
    ELSE IF mapMySQLError(err) # Nil THEN mapMySQLError(err)
    ELSE err

defaultMap(err) ==
    IF err = Nil THEN Nil
    ELSE IF ErrorsIs(err, sqlErrNoRows) THEN DBError(ErrNotFound, err)
    ELSE IF ErrorsIs(err, context_deadline_exceeded) \/ ErrorsIs(err, context_canceled)
         THEN DBError(ErrTimeout, err)
    ELSE IF AsDBError(err) THEN err
    ELSE IF mapPQError(err) # Nil THEN mapPQError(err)
    ELSE IF mapPGXError(err) # Nil THEN mapPGXError(err)
    ELSE IF mapMySQLError(err) # Nil THEN mapMySQLError(err)
    ELSE IF mapSQLiteError(err) # Nil THEN mapSQLiteError(err)
    ELSE err

(***************************************************************************)
(* Mappers.  An ErrorMapper value is                                       *)
(*   [kind |-> "default"]                 DefaultErrorMapper()             *)
(*   [kind |-> "chain", ms |-> <<...>>]   ChainMapper(ms...)               *)
(*   [kind |-> "crdb"]                    a caller's own mapper            *)
(*   [kind |-> "wrapAll"]                 a caller's own mapper            *)
(***************************************************************************)
DefaultErrorMapper == [kind |-> "default"]
ChainMapper(ms) == [kind |-> "chain", ms |-> ms]

RECURSIVE Map(_, _)
RECURSIVE ChainMap(_, _, _)
\* the loop of the function ChainMapper returns, from position i on
ChainMap(ms, i, err) ==
    IF i > Len(ms) THEN err
    ELSE IF Map(ms[i], err) # err THEN Map(ms[i], err)
    ELSE ChainMap(ms, i + 1, err)

\* a caller's mapper, the crdbMapper of the README: it classifies one error
\* text of its own and hands every other error back
crdbMapper == [kind |-> "crdb"]
crdbMap(err) ==
    IF err = Nil THEN Nil
    ELSE IF Contains(ErrorText(err), "restart transaction") THEN DBError(ErrDeadlock, err)
    ELSE err

\* a caller's ErrorMapperFunc that wraps whatever it is given, nil included
wrapAllMapper == [kind |-> "wrapAll"]
wrapAllMap(err) == DBError(ErrConnectionFailed, err)

\* ErrorMapper.Map
Map(m, err) ==
    IF m.kind = "default" THEN defaultMap(err)
    ELSE IF m.kind = "crdb" THEN crdbMap(err)
    ELSE IF m.kind = "wrapAll" THEN wrapAllMap(err)
    ELSE IF err = Nil THEN Nil ELSE ChainMap(m.ms, 1, err)

\* the mappers this package installs on a DB: Open's default, OpenWithDriver's
\* chain over the driver's mapper and the default, and the empty chain
Mappers == {DefaultErrorMapper,
            ChainMapper(<<DefaultErrorMapper, DefaultErrorMapper>>),
            ChainMapper(<<>>)}

IsNotFound(err) == ErrorsIs(err, ErrNotFound)
IsDuplicateKey(err) == ErrorsIs(err, ErrDuplicateKey)
IsForeignKeyViolation(err) == ErrorsIs(err, ErrForeignKeyViolation)
IsDeadlock(err) == ErrorsIs(err, ErrDeadlock)
IsTimeout(err) == ErrorsIs(err, ErrTimeout)
IsCheckViolation(err) == ErrorsIs(err, ErrCheckViolation)

(***************************************************************************)
(* Hook chain, db/hooks.go.  An entry of Config.Hooks is named by what it  *)
(* does: "counting" returns normally, "nil" is a nil entry, "panicBefore"  *)
(* panics in BeforeQuery, "panicAfter" in AfterQuery, "panicking" in both. *)
(* A hook of the chain is [id |-> its position in Config.Hooks, kind].     *)
(***************************************************************************)
HookKinds == {"counting", "nil", "panicBefore", "panicAfter", "panicking"}
ConfigHooks == <<"counting", "nil", "panicking">>

\* a chain that keeps the nil entries of the list
newHookChainKeepsNil(hooks) == [i \in 1..Len(hooks) |-> [id |-> i, kind |-> hooks[i]]]

\* newHookChain: the non-nil entries of the list, in its order
newHookChain(hooks) ==
    LET all == [i \in 1..Len(hooks) |-> [id |-> i, kind |-> hooks[i]]]
        notNil(h) == h.kind # "nil"
    IN SelectSeq(all, notNil)

\* CompositeHook(hooks...): the children of the composites tried
CompositeKinds == {"composite(counting,panicking,counting)",
                   "composite(counting,nil,counting)",
                   "composite(counting,counting)"}
CompositeChildren(kind) ==
    CASE kind = "composite(counting,panicking,counting)" -> <<"counting", "panicking", "counting">>
      [] kind = "composite(counting,nil,counting)" -> <<"counting", "nil", "counting">>
      [] kind = "composite(counting,counting)" -> <<"counting", "counting">>
      [] OTHER -> <<>>

\* the first child of a composite whose call panics (0 when none does): the
\* loops of compositeHook call h.BeforeQuery / h.AfterQuery with no recover
\* and no nil test
FirstPanickingChild(kind) ==
    LET cs == CompositeChildren(kind)
        bad == {j \in 1..Len(cs) : cs[j] \in {"nil", "panicking"}}
    IN IF bad = {} THEN 0 ELSE CHOOSE j \in bad : \A k \in bad : j <= k

\* the children a loop of compositeHook gets to enter: all when none panics,
\* otherwise those up to the panicking one (a nil child is not entered)
ChildrenEntered(kind) ==
    LET cs == CompositeChildren(kind)
        f == FirstPanickingChild(kind)
    IN IF f = 0 THEN 1..Len(cs)
       ELSE IF cs[f] = "nil" THEN 1..(f - 1) ELSE 1..f

\* the panic h.BeforeQuery / h.AfterQuery raises; a call through a nil Hook
\* is a nil dereference
BeforeQueryPanic(h) ==
    IF h.kind \in {"nil", "panicBefore", "panicking"} THEN "hook panic"
    ELSE IF h.kind \in CompositeKinds /\ FirstPanickingChild(h.kind) # 0 THEN "hook panic"
    ELSE "no panic"
AfterQueryPanic(h) ==
    IF h.kind \in {"nil", "panicAfter", "panicking"} THEN "hook panic"
    ELSE IF h.kind \in CompositeKinds /\ FirstPanickingChild(h.kind) # 0 THEN "hook panic"
    ELSE "no panic"

\* what h.BeforeQuery does inside: a composite calls its children in order,
\* tracingHook.BeforeQuery is empty
BeforeQueryBody(h) ==
    IF h.kind \in CompositeKinds
    THEN [j \in ChildrenEntered(h.kind) |->
             [ev |-> "child.BeforeQuery", hook |-> h.id, child |-> j]]
    ELSE <<>>

\* what h.AfterQuery does inside: a composite calls its children in order,
\* tracingHook.AfterQuery calls StartSpan and then EndSpan with the context
\* StartSpan returned
AfterQueryBody(h, e) ==
    IF h.kind \in CompositeKinds
    THEN [j \in ChildrenEntered(h.kind) |->
             [ev |-> "child.AfterQuery", hook |-> h.id, child |-> j, err |-> e]]
    ELSE IF h.kind = "tracing"
    THEN <<[ev |-> "StartSpan", hook |-> h.id],
           [ev |-> "EndSpan", hook |-> h.id, ctx |-> "spanCtx", err |-> e]>>
    ELSE <<>>

\* the hook called without a deferred recover
safeBeforeQueryNoRecover(h) ==
    [events |-> <<[ev |-> "BeforeQuery", hook |-> h.id]>>, panic |-> BeforeQueryPanic(h)]

\* safeBeforeQuery: the hook is entered; a panic inside it is recovered and logged
safeBeforeQuery(h) ==
    [events |-> <<[ev |-> "BeforeQuery", hook |-> h.id]>> \o BeforeQueryBody(h) \o
                (IF BeforeQueryPanic(h) # "no panic"
                 THEN <<[ev |-> "slog.Error", hook |-> h.id]>> ELSE <<>>),
     panic |-> "no panic"]

\* safeAfterQuery: the hook is entered with err; a panic inside it is recovered and logged
safeAfterQuery(h, e) ==
    [events |-> <<[ev |-> "AfterQuery", hook |-> h.id, err |-> e]>> \o AfterQueryBody(h, e) \o
                (IF AfterQueryPanic(h) # "no panic"
                 THEN <<[ev |-> "slog.Error", hook |-> h.id]>> ELSE <<>>),
     panic |-> "no panic"]

\* hookChain.Before: the loop stops where a panic leaves it
RECURSIVE hookChainBefore(_)
hookChainBefore(c) ==
    IF c = <<>> THEN [events |-> <<>>, panic |-> "no panic"]
    ELSE LET r == safeBeforeQuery(Head(c))
             rest == hookChainBefore(Tail(c))
         IN IF r.panic # "no panic" THEN r
            ELSE [events |-> r.events \o rest.events, panic |-> rest.panic]

\* hookChain.After
RECURSIVE hookChainAfter(_, _)
hookChainAfter(c, e) ==
    IF c = <<>> THEN [events |-> <<>>, panic |-> "no panic"]
    ELSE LET r == safeAfterQuery(Head(c), e)
             rest == hookChainAfter(Tail(c), e)
         IN IF r.panic # "no panic" THEN r
            ELSE [events |-> r.events \o rest.events, panic |-> rest.panic]

\* the After hooks run before the statement is dispatched
RunStatementAfterFirst(c, op, m, dispatch, afterErr, tail) ==
    [trace |-> <<[ev |-> "call", op |-> op, errMap |-> m]>> \o hookChainBefore(c).events
                 \o hookChainAfter(c, afterErr).events \o dispatch \o tail,
     panic |-> "no panic"]

\* the shape Exec, Query and QueryRow share on DB, Tx and Stmt: hooks.Before,
\* the driver call (dispatch), hooks.After with afterErr, then what follows
\* up to the caller having its result (tail).  op and m (the error mapper in
\* use) head the trace; a panic that leaves a hook ends the operation there.
RunStatement(c, op, m, dispatch, afterErr, tail) ==
    LET head == <<[ev |-> "call", op |-> op, errMap |-> m]>>
        b == hookChainBefore(c)
        a == hookChainAfter(c, afterErr)
    IN IF b.panic # "no panic"
       THEN [trace |-> head \o b.events \o <<[ev |-> "panic"]>>, panic |-> b.panic]
       ELSE IF a.panic # "no panic"
       THEN [trace |-> head \o b.events \o dispatch \o a.events \o <<[ev |-> "panic"]>>,
             panic |-> a.panic]
       ELSE [trace |-> head \o b.events \o dispatch \o a.events \o tail,
             panic |-> "no panic"]

\* Prepare on DB and Tx: the driver call and the mapped error, no hook
RunPrepare(op, m, dispatch, tail) ==
    [trace |-> <<[ev |-> "call", op |-> op, errMap |-> m]>> \o dispatch \o tail,
     panic |-> "no panic"]

(***************************************************************************)
(* State                                                                   *)
(***************************************************************************)
VARIABLES
    errMap,     \* DB.errMap
    committed,  \* rows a read through the DB sees
    call,       \* number of ExecTx calls started so far
    pc,         \* where the current ExecTx call is
    sqltx,      \* the *sql.Tx of the current call: id, done, pending writes, ctx state
    tx,         \* the *Tx handed to fn: the sql.Tx it wraps and its errMap
    err,        \* the named result err of ExecTxOpts
    panicking,  \* the panic value unwinding through / out of ExecTxOpts
    fn,         \* the body's own state: statements issued, last error it received
    trace,      \* hook and driver events of the latest statement of this call
    log,        \* calls ExecTxOpts has made on the driver and on fn, in order
    obs,        \* what the driver, fn and the mapper returned in this call
    cfgHooks,   \* Config.Hooks the DB was opened with
    db,         \* statements issued on the DB itself and on its prepared statements
    mp,         \* an ErrorMapper applied on its own: the mapper and the values it gave
    tm,         \* one call seen by its contexts: the caller's and the driver's
    rt,         \* one WithRetry call
    qrow,       \* the *Row a QueryRow returned and not yet scanned
    bt,         \* one batch: its items and how far the loop over them is
    reg,        \* the driver registry, its lock and the calls running on it
    acc         \* concurrent calls on one DB: their positions and field accesses

vars == <<errMap, committed, call, pc, sqltx, tx, err, panicking, fn, trace, log, obs,
          cfgHooks, db, mp, tm, rt, qrow, bt, reg, acc>>

NoPanic == "no panic"
PanicValues == {"test panic", "other panic"}
\* a call that has not been made (yet) in this ExecTx
NotCalled == [type |-> "not called"]
NoTx == [id |-> 0, done |-> TRUE, pending |-> {}, ctxErr |-> Nil]
NoObs == [begin |-> NotCalled, fnRet |-> NotCalled, fnPanic |-> NoPanic,
          commit |-> NotCalled, rollback |-> NotCalled, mapper |-> NotCalled,
          wrote |-> {}]
NewFn == [stmts |-> 0, lastErr |-> Nil]
\* a DB on which no statement has been issued: statements so far, unique keys
\* stored, the prepared statement in hand
NoStmt == [on |-> "none", errMap |-> DefaultErrorMapper]
NewDB == [ops |-> 0, keys |-> {}, stmt |-> NoStmt]
\* no mapper applied on its own
NoMap == [mapper |-> DefaultErrorMapper, vals |-> <<>>]
\* no call looked at for its contexts
NoCall == [op |-> "none"]
\* no WithRetry call
NoRetry == [pc |-> "none"]
\* no Row in hand
NoRow == [open |-> FALSE, errMap |-> DefaultErrorMapper]
NoBatch == [pc |-> "none"]
NoRegistry == [pc |-> "none"]
NoAccess == [pc |-> "none"]

\* errors the driver reports, per call
BeginErrs == {badConn, context_canceled}
ExecErrs == {sqliteUnique}
ScanErrs == {sqlErrNoRows}
CommitErrs == {badConn, pqCodeDeadlock}
RollbackErrs == {badConn}
\* errors a body makes up itself (besides those it received from its Tx)
BodyErrs == {appError, sqlErrNoRows, context_deadline_exceeded, sqliteUnique,
             pqTextUnique, mysqlDuplicate, pgxForeignKey}
ContextErrs == {context_deadline_exceeded, context_canceled}

\* DB.mapErr / Tx.mapErr
mapErr(m, e) == IF e = Nil THEN Nil ELSE Map(m, e)

\* a BeginTx failure returned unclassified
BeginFailureRaw(m, b) == b

\* if err != nil { return d.mapErr(err) } after BeginTx
BeginFailure(m, b) == mapErr(m, b)

\* if err != nil { return d.mapErr(err) } after fn
FnFailure(m, e) == mapErr(m, e)

\* a Commit failure dropped on the floor
CommitResultIgnored(m, r) == Nil

\* if err = sqltx.Commit(); err != nil { return d.mapErr(err) }; return nil
CommitResult(m, r) == IF r # Nil THEN mapErr(m, r) ELSE Nil

Init ==
    /\ errMap = DefaultErrorMapper
    /\ committed = {}
    /\ call = 0
    /\ pc = "idle"
    /\ sqltx = NoTx
    /\ tx = [sqltx |-> 0, errMap |-> DefaultErrorMapper]
    /\ err = Nil
    /\ panicking = NoPanic
    /\ fn = NewFn
    /\ trace = <<>>
    /\ log = <<>>
    /\ obs = NoObs
    /\ cfgHooks = ConfigHooks
    /\ db = NewDB
    /\ mp = NoMap
    /\ tm = NoCall
    /\ rt = NoRetry
    /\ qrow = NoRow
    /\ bt = NoBatch
    /\ reg = NoRegistry
    /\ acc = NoAccess

\* DB.SetErrorMapper, called between two ExecTx calls or while a body runs
\* (a change at any later point of a call acts on that call as one made
\* while the body runs)
SetErrorMapper(m) ==
    /\ m # errMap
    /\ \/ pc = "active"
       \/ pc \in {"idle", "returned", "panicked"} /\ call < MaxCalls
    /\ errMap' = m
    /\ UNCHANGED <<committed, call, pc, sqltx, tx, err, panicking, fn, trace, log, obs, cfgHooks, db, mp,
                   tm, rt, qrow,
                   bt, reg, acc>>

\* ExecTxOpts up to the deferred function being registered: BeginTx, the
\* early return on its failure, the Tx wrapper
ExecTxBegin ==
    /\ pc \in {"idle", "returned", "panicked"}
    /\ call < MaxCalls
    /\ call' = call + 1
    /\ panicking' = NoPanic
    /\ fn' = NewFn
    /\ log' = <<"BeginTx">>
    /\ trace' = <<>>
    /\ \E b \in {Nil} \cup BeginErrs :
         /\ obs' = [NoObs EXCEPT !.begin = b,
                                 !.mapper = IF b = Nil THEN NotCalled ELSE errMap]
         /\ IF b = Nil
            THEN /\ sqltx' = [id |-> call + 1, done |-> FALSE, pending |-> {}, ctxErr |-> Nil]
                 /\ tx' = [sqltx |-> call + 1, errMap |-> errMap]
                 /\ err' = Nil
                 /\ pc' = "invoke"
            ELSE /\ sqltx' = NoTx
                 /\ tx' = [sqltx |-> 0, errMap |-> errMap]
                 /\ err' = BeginFailure(errMap, b)
                 /\ pc' = "returned"
    /\ UNCHANGED <<errMap, committed, cfgHooks, db, mp, tm, rt, qrow,
                   bt, reg, acc>>

\* err = fn(tx): the call of the body
ExecTxInvoke ==
    /\ pc = "invoke"
    /\ pc' = "active"
    /\ log' = Append(log, "fn")
    /\ UNCHANGED <<errMap, committed, call, sqltx, tx, err, panicking, fn, trace, obs, cfgHooks, db, mp,
                   tm, rt, qrow,
                   bt, reg, acc>>

(***************************************************************************)
(* database/sql behind the calls ExecTxOpts and Tx make                    *)
(***************************************************************************)
\* results (*sql.Tx).ExecContext can give in state t
ExecOutcomes(t) ==
    IF t.done THEN {sqlErrTxDone}
    ELSE IF t.ctxErr # Nil THEN {t.ctxErr}
    ELSE {Nil} \cup ExecErrs

\* results (*sql.Row).Scan can give after (*sql.Tx).QueryRowContext in state t
ScanOutcomes(t) ==
    IF t.done THEN {sqlErrTxDone}
    ELSE IF t.ctxErr # Nil THEN {t.ctxErr}
    ELSE {Nil} \cup ScanErrs

\* results (*sql.Tx).Commit can give in state t: a done context is looked at
\* first and leaves the transaction as it is
CommitOutcomes(t) ==
    IF t.ctxErr # Nil THEN (IF t.done THEN {sqlErrTxDone} ELSE {t.ctxErr})
    ELSE IF t.done THEN {sqlErrTxDone}
    ELSE {Nil} \cup CommitErrs

\* the sql.Tx after Commit gave r
AfterCommit(t, r) ==
    IF t.done \/ t.ctxErr # Nil THEN t
    ELSE [t EXCEPT !.done = TRUE, !.pending = {}]

\* results (*sql.Tx).Rollback can give in state t
RollbackOutcomes(t) ==
    IF t.done THEN {sqlErrTxDone} ELSE {Nil} \cup RollbackErrs

\* a Rollback that discards the work and leaves the sql.Tx usable
AfterRollbackStaysOpen(t) == [t EXCEPT !.pending = {}]

\* the sql.Tx after Rollback
AfterRollback(t) == [t EXCEPT !.done = TRUE, !.pending = {}]

\* the caller's context is cancelled or its deadline passes
CtxDone ==
    /\ pc \in {"invoke", "active", "commit"}
    /\ sqltx.ctxErr = Nil
    /\ sqltx' = [sqltx EXCEPT !.ctxErr = context_canceled]
    /\ UNCHANGED <<errMap, committed, call, pc, tx, err, panicking, fn, trace, log, obs, cfgHooks, db, mp,
                   tm, rt, qrow,
                   bt, reg, acc>>

\* database/sql rolls a transaction back once the context given to BeginTx is done
AwaitDone ==
    /\ pc \in {"invoke", "active", "commit", "deferred"}
    /\ sqltx.ctxErr # Nil
    /\ ~sqltx.done
    /\ sqltx' = AfterRollback(sqltx)
    /\ UNCHANGED <<errMap, committed, call, pc, tx, err, panicking, fn, trace, log, obs, cfgHooks, db, mp,
                   tm, rt, qrow,
                   bt, reg, acc>>

(***************************************************************************)
(* The body fn(tx)                                                         *)
(***************************************************************************)
\* the driver calls a statement makes
DriverCalls == {"ExecContext", "QueryContext", "QueryRowContext", "PrepareContext"}
\* the statement of trace t reached the driver
Dispatched(t) == \E i \in 1..Len(t) : t[i].ev \in DriverCalls
\* the error the caller of the statement of trace t has in hand (Nil when
\* the operation did not return)
Returned(t) ==
    IF t # <<>> /\ t[Len(t)].ev = "return" THEN t[Len(t)].err ELSE Nil

\* Tx.Exec called by the body: an INSERT of one new row, <<transaction, n>>
\* for the n-th row of that transaction
TxExec ==
    /\ pc = "active"
    /\ fn.stmts < MaxStmts
    /\ \E r \in ExecOutcomes(sqltx) :
         LET row == <<tx.sqltx, Cardinality(obs.wrote) + 1>>
             e == mapErr(tx.errMap, r)
             run == RunStatement(newHookChain(cfgHooks), "Tx.Exec", tx.errMap,
                                 <<[ev |-> "ExecContext", err |-> r]>>, e,
                                 <<[ev |-> "return", err |-> e]>>)
             ok == r = Nil /\ Dispatched(run.trace)
         IN /\ sqltx' = IF ok THEN [sqltx EXCEPT !.pending = @ \cup {row}] ELSE sqltx
            /\ obs' = IF ok THEN [obs EXCEPT !.wrote = @ \cup {row}] ELSE obs
            /\ fn' = [stmts |-> fn.stmts + 1, lastErr |-> Returned(run.trace)]
            /\ trace' = run.trace
    /\ UNCHANGED <<errMap, committed, call, pc, tx, err, panicking, log, cfgHooks, db, mp,
                   tm, rt, qrow,
                   bt, reg, acc>>

\* Tx.QueryRow(...).Scan(...) called by the body
TxQueryRowScan ==
    /\ pc = "active"
    /\ fn.stmts < MaxStmts
    /\ \E r \in ScanOutcomes(sqltx) :
         LET e == Map(tx.errMap, r)
             run == RunStatement(newHookChain(cfgHooks), "Tx.QueryRow", tx.errMap,
                                 <<[ev |-> "QueryRowContext", err |-> Nil]>>, Nil,
                                 <<[ev |-> "Scan", err |-> r], [ev |-> "return", err |-> e]>>)
         IN /\ fn' = [stmts |-> fn.stmts + 1, lastErr |-> Returned(run.trace)]
            /\ trace' = run.trace
    /\ UNCHANGED <<errMap, committed, call, pc, sqltx, tx, err, panicking, log, obs, cfgHooks, db, mp,
                   tm, rt, qrow,
                   bt, reg, acc>>

\* what a body can return: nil, an error of its own, or the error it last
\* received from its Tx
FnResults == {Nil} \cup BodyErrs \cup {fn.lastErr}

\* the body's error not looked at: Commit follows in every case
AfterFnAlwaysCommit(e) == "commit"

\* the body called again after it failed
AfterFnRetry(e) == IF e # Nil THEN "invoke" ELSE "commit"

\* where ExecTxOpts goes when fn returned e: "if err != nil { return ... }"
AfterFn(e) == IF e # Nil THEN "deferred" ELSE "commit"

\* err = fn(tx) returns; if err != nil { return d.mapErr(err) }
FnReturn ==
    /\ pc = "active"
    /\ \E e \in FnResults :
         /\ err' = FnFailure(errMap, e)
         /\ pc' = AfterFn(e)
         /\ obs' = [obs EXCEPT !.fnRet = e,
                               !.mapper = IF e = Nil THEN @ ELSE errMap]
    /\ UNCHANGED <<errMap, committed, call, sqltx, tx, panicking, fn, trace, log, cfgHooks, db, mp,
                   tm, rt, qrow,
                   bt, reg, acc>>

\* fn(tx) panics
FnPanic ==
    /\ pc = "active"
    /\ \E p \in PanicValues :
         /\ panicking' = p
         /\ obs' = [obs EXCEPT !.fnPanic = p]
    /\ pc' = "deferred"
    /\ UNCHANGED <<errMap, committed, call, sqltx, tx, err, fn, trace, log, cfgHooks, db, mp,
                   tm, rt, qrow,
                   bt, reg, acc>>

(***************************************************************************)
(* ExecTxOpts after the body                                               *)
(***************************************************************************)
\* if err = sqltx.Commit(); err != nil { return d.mapErr(err) }; return nil
ExecTxCommit ==
    /\ pc = "commit"
    /\ \E r \in CommitOutcomes(sqltx) :
         /\ committed' = IF r = Nil THEN committed \cup sqltx.pending ELSE committed
         /\ sqltx' = AfterCommit(sqltx, r)
         /\ err' = CommitResult(errMap, r)
         /\ obs' = [obs EXCEPT !.commit = r,
                               !.mapper = IF r = Nil THEN @ ELSE errMap]
    /\ log' = Append(log, "Commit")
    /\ pc' = "deferred"
    /\ UNCHANGED <<errMap, call, tx, panicking, fn, trace, cfgHooks, db, mp,
                   tm, rt, qrow,
                   bt, reg, acc>>

\* a deferred function that recovers the panic and then only looks at err
DeferredKindSwallowsPanic(p, e) == IF e # Nil THEN "error" ELSE "none"

\* a deferred function that rolls back on panic only
DeferredKindPanicOnly(p, e) == IF p # NoPanic THEN "panic" ELSE "none"

\* which branch the deferred function takes, from recover() and the named result
DeferredKind(p, e) ==
    IF p # NoPanic THEN "panic" ELSE IF e # Nil THEN "error" ELSE "none"

\* the Rollback failure returned in place of the original error
RollbackResultReplaces(rbErr, e) == IF rbErr # Nil THEN rbErr ELSE e

\* the named result after the deferred Rollback returned rbErr
RollbackResult(rbErr, e) == IF rbErr # Nil THEN RollbackFailed(rbErr, e) ELSE e

\* the deferred function of ExecTxOpts, then control leaves ExecTxOpts
ExecTxDeferred ==
    /\ pc = "deferred"
    /\ LET kind == DeferredKind(panicking, err)
       IN IF kind = "none"
          THEN /\ pc' = "returned"
               /\ UNCHANGED <<sqltx, err, log, obs>>
          ELSE \E r \in RollbackOutcomes(sqltx) :
                 /\ sqltx' = AfterRollback(sqltx)
                 /\ log' = Append(log, "Rollback")
                 /\ obs' = [obs EXCEPT !.rollback = r]
                 /\ IF kind = "panic"
                    THEN /\ pc' = "panicked"
                         /\ err' = err
                    ELSE /\ pc' = "returned"
                         /\ err' = RollbackResult(r, err)
    /\ UNCHANGED <<errMap, committed, call, tx, panicking, fn, trace, cfgHooks, db, mp,
                   tm, rt, qrow,
                   bt, reg, acc>>

Next ==
    \/ \E m \in Mappers : SetErrorMapper(m)
    \/ ExecTxBegin
    \/ ExecTxInvoke
    \/ CtxDone
    \/ AwaitDone
    \/ TxExec
    \/ TxQueryRowScan
    \/ FnReturn
    \/ FnPanic
    \/ ExecTxCommit
    \/ ExecTxDeferred

Spec == Init /\ [][Next]_vars

TypeOK ==
    /\ errMap \in Mappers
    /\ call \in 0..MaxCalls
    /\ pc \in {"idle", "invoke", "active", "commit", "deferred", "returned", "panicked"}
    /\ panicking \in PanicValues \cup {NoPanic}
    /\ fn.stmts \in 0..MaxStmts

(***************************************************************************)
(* Properties of ExecTx                                                    *)
(***************************************************************************)
Attempted(op) == Contains(log, op)
\* fn returned a non-nil error in this call
FnFailed == obs.fnRet \notin {NotCalled, Nil}
\* the deferred Rollback of this call failed
RollbackFailedNow == obs.rollback \notin {NotCalled, Nil}
\* Commit of this call failed
CommitFailedNow == obs.commit \notin {NotCalled, Nil}
Left == pc \in {"returned", "panicked"}

\* C1: when Begin succeeded and the body wrote through the Tx and then
\* returned a non-nil error e, then once ExecTx has returned a Rollback has
\* been attempted, none of the body's rows is visible through the DB, and
\* errors.Is(result, e) holds.
C1_RollbackOnError ==
    (pc = "returned" /\ obs.begin = Nil /\ FnFailed /\ obs.wrote # {}) =>
        /\ Attempted("Rollback")
        /\ obs.wrote \cap committed = {}
        /\ ErrorsIs(err, obs.fnRet)

C1_Witness ==
    /\ pc = "returned"
    /\ obs.fnRet = appError
    /\ Cardinality(obs.wrote) = MaxStmts
    /\ obs.rollback = Nil
    /\ err = appError

\* C2: when the body panics with p, ExecTx never returns normally; when the
\* panic has left ExecTx a Rollback has been attempted, the body's rows are
\* not visible, and the panic in flight carries p, whatever Rollback returned.
C2_RollbackOnPanic ==
    /\ obs.fnPanic # NoPanic => pc \in {"deferred", "panicked"}
    /\ pc = "panicked" =>
         /\ obs.fnPanic # NoPanic
         /\ panicking = obs.fnPanic
         /\ log[Len(log)] = "Rollback"
         /\ obs.wrote \cap committed = {}
         /\ sqltx.pending = {}

C2_Witness ==
    /\ pc = "panicked"
    /\ panicking = "test panic"
    /\ obs.wrote # {}
    /\ obs.rollback = badConn

\* C3: ExecTx returns nil exactly when Begin succeeded, the body returned nil
\* and Commit succeeded, and then every row the body wrote is visible.
C3_NilIffCommitted ==
    pc = "returned" =>
        /\ (err = Nil) <=> (obs.begin = Nil /\ obs.fnRet = Nil /\ obs.commit = Nil)
        /\ err = Nil => obs.wrote \subseteq committed

C3_Witness ==
    /\ pc = "returned"
    /\ err = Nil
    /\ Cardinality(obs.wrote) = MaxStmts
    /\ obs.wrote \subseteq committed

\* C4: Commit and Rollback are never both attempted on one transaction; in
\* particular no Rollback follows a Commit attempt.
C4_CommitXorRollback ==
    ~(Attempted("Commit") /\ Attempted("Rollback"))

\* C5: when the body returned nil and Commit failed with c, ExecTx returns
\* exactly Map(c) of the mapper in force, with nothing wrapped around it.
C5_CommitErrorExact ==
    (pc = "returned" /\ obs.fnRet = Nil /\ CommitFailedNow) =>
        err = Map(obs.mapper, obs.commit)

\* C6: when the body returned a non-nil error e and Rollback succeeded,
\* ExecTx returns e itself.
C6_BodyErrorUnchanged ==
    (pc = "returned" /\ FnFailed /\ obs.rollback = Nil) => err = obs.fnRet

\* C7: when the body returned a non-nil error e and Rollback failed with r,
\* ExecTx returns one combined error: e is matched by errors.Is, every Kind
\* predicate of e holds of the result, the text of r is in the text of the
\* result, and the result is a new error formed from both, not r.
C7_RollbackFailureMerged ==
    (pc = "returned" /\ FnFailed /\ RollbackFailedNow) =>
        /\ ErrorsIs(err, obs.fnRet)
        /\ \A s \in Sentinels : ErrorsIs(obs.fnRet, s) => ErrorsIs(err, s)
        /\ ContainsSeq(ErrorText(err), ErrorText(obs.rollback))
        /\ err # obs.rollback
        /\ err.type = "wrap"

C7_Witness ==
    /\ pc = "returned"
    /\ FnFailed
    /\ IsDuplicateKey(obs.fnRet)
    /\ obs.rollback = badConn
    /\ IsDuplicateKey(err)

\* C8: when BeginTx failed with b, ExecTx has returned Map(b) of the mapper
\* in force (Timeout for a cancelled context under the default mapper), the
\* body was not invoked, and neither Commit nor Rollback was attempted.
C8_BeginFailure ==
    obs.begin \notin {NotCalled, Nil} =>
        /\ pc = "returned"
        /\ err = Map(obs.mapper, obs.begin)
        /\ (obs.begin = context_canceled /\ obs.mapper = DefaultErrorMapper) => IsTimeout(err)
        /\ log = <<"BeginTx">>
        /\ fn = NewFn

C8_Witness ==
    /\ pc = "returned"
    /\ obs.begin = context_canceled
    /\ IsTimeout(err)
    /\ call = MaxCalls

\* C9: after a successful BeginTx the body is invoked exactly once, second
\* in the order of calls (after BeginTx, before any Commit or Rollback), with
\* a Tx that wraps the transaction just begun.
C9_BodyOnce ==
    obs.begin = Nil =>
        /\ log[1] = "BeginTx"
        /\ pc = "invoke" => log = <<"BeginTx">>
        /\ pc # "invoke" => (Len(log) >= 2 /\ log[2] = "fn")
        /\ \A i \in 1..Len(log) : (i # 1 => log[i] # "BeginTx") /\ (i # 2 => log[i] # "fn")
        /\ tx.sqltx = sqltx.id
        /\ sqltx.id = call
        /\ \A row \in obs.wrote \cup sqltx.pending : row[1] = call

C9_Witness ==
    /\ pc = "returned"
    /\ call = MaxCalls
    /\ FnFailed
    /\ log = <<"BeginTx", "fn", "Rollback">>

\* C10: whenever control has left ExecTx after a successful Begin, Commit or
\* Rollback has been attempted and the transaction is closed.
C10_NeverLeftOpen ==
    (Left /\ obs.begin = Nil) =>
        /\ Attempted("Commit") \/ Attempted("Rollback")
        /\ sqltx.done

C10_Witness ==
    /\ pc = "returned"
    /\ obs.begin = Nil
    /\ obs.commit \in ContextErrs
    /\ obs.rollback = Nil
    /\ sqltx.done

(***************************************************************************)
(* Statements on the DB, on a Tx and on a prepared statement (db.go,       *)
(* db/tx.go), with the hook chain around them                              *)
(***************************************************************************)
\* the lists Config.Hooks can be
HookLists == UNION {[1..n -> HookKinds] : n \in 0..MaxHooks}
\* the value of the unique column the inserts carry
Keys == {"dup@test.com"}
\* a unique-key violation as each backend reports it
UniqueForms == {pqCodeUnique, pgxUnique, pqTextUnique, mysqlDuplicate, sqliteUnique}
QueryErrs == {badConn}
PrepareErrs == {badConn}

\* results (*sql.DB).ExecContext can give for an INSERT of key k
DBExecOutcomes(keys, k) == IF k \in keys THEN UniqueForms ELSE {Nil, badConn}

\* results QueryContext / PrepareContext can give on the sql.Tx in state t
\* (sqlErrTxDone once it is done, the context's error once that is done)
TxOutcomes(t, errs) ==
    IF t.done THEN {sqlErrTxDone}
    ELSE IF t.ctxErr # Nil THEN {t.ctxErr}
    ELSE {Nil} \cup errs

\* a DB opened with any hook list, either idle or inside the body of an
\* ExecTx call whose BeginTx succeeded
InitStmt ==
    /\ errMap = DefaultErrorMapper
    /\ committed = {}
    /\ err = Nil
    /\ panicking = NoPanic
    /\ fn = NewFn
    /\ trace = <<>>
    /\ cfgHooks \in HookLists
    /\ db = NewDB
    /\ mp = NoMap
    /\ tm = NoCall
    /\ rt = NoRetry
    /\ qrow = NoRow
    /\ bt = NoBatch
    /\ reg = NoRegistry
    /\ acc = NoAccess
    /\ \/ /\ pc = "idle"
          /\ call = 0
          /\ sqltx = NoTx
          /\ tx = [sqltx |-> 0, errMap |-> DefaultErrorMapper]
          /\ log = <<>>
          /\ obs = NoObs
       \/ /\ pc = "active"
          /\ call = 1
          /\ sqltx = [id |-> 1, done |-> FALSE, pending |-> {}, ctxErr |-> Nil]
          /\ tx = [sqltx |-> 1, errMap |-> DefaultErrorMapper]
          /\ log = <<"BeginTx", "fn">>
          /\ obs = [NoObs EXCEPT !.begin = Nil]

\* DB.Exec: an INSERT of key k
DBExec ==
    /\ pc = "idle"
    /\ db.ops < MaxStmts
    /\ \E k \in Keys : \E r \in DBExecOutcomes(db.keys, k) :
         LET e == mapErr(errMap, r)
             run == RunStatement(newHookChain(cfgHooks), "DB.Exec", errMap,
                                 <<[ev |-> "ExecContext", err |-> r]>>, e,
                                 <<[ev |-> "return", err |-> e]>>)
         IN /\ db' = [db EXCEPT !.ops = @ + 1,
                                !.keys = IF r = Nil /\ Dispatched(run.trace)
                                         THEN @ \cup {k} ELSE @]
            /\ trace' = run.trace
    /\ UNCHANGED <<errMap, committed, call, pc, sqltx, tx, err, panicking, fn, log,
                   obs, cfgHooks, mp, tm, rt, qrow,
                   bt, reg, acc>>

\* DB.Query
DBQuery ==
    /\ pc = "idle"
    /\ db.ops < MaxStmts
    /\ \E r \in {Nil} \cup QueryErrs :
         LET e == mapErr(errMap, r)
             run == RunStatement(newHookChain(cfgHooks), "DB.Query", errMap,
                                 <<[ev |-> "QueryContext", err |-> r]>>, e,
                                 <<[ev |-> "return", err |-> e]>>)
         IN trace' = run.trace
    /\ db' = [db EXCEPT !.ops = @ + 1]
    /\ UNCHANGED <<errMap, committed, call, pc, sqltx, tx, err, panicking, fn, log,
                   obs, cfgHooks, mp, tm, rt, qrow,
                   bt, reg, acc>>

\* DB.QueryRow(...).Scan(...): the Row keeps the mapper of the DB
DBQueryRowScan ==
    /\ pc = "idle"
    /\ db.ops < MaxStmts
    /\ \E r \in {Nil} \cup ScanErrs :
         LET e == Map(errMap, r)
             run == RunStatement(newHookChain(cfgHooks), "DB.QueryRow", errMap,
                                 <<[ev |-> "QueryRowContext", err |-> Nil]>>, Nil,
                                 <<[ev |-> "Scan", err |-> r], [ev |-> "return", err |-> e]>>)
         IN trace' = run.trace
    /\ db' = [db EXCEPT !.ops = @ + 1]
    /\ UNCHANGED <<errMap, committed, call, pc, sqltx, tx, err, panicking, fn, log,
                   obs, cfgHooks, mp, tm, rt, qrow,
                   bt, reg, acc>>

\* DB.Prepare: the Stmt keeps the mapper and the hooks of the DB
DBPrepare ==
    /\ pc = "idle"
    /\ db.ops < MaxStmts
    /\ \E r \in {Nil} \cup PrepareErrs :
         LET e == mapErr(errMap, r)
             run == RunPrepare("DB.Prepare", errMap,
                               <<[ev |-> "PrepareContext", err |-> r]>>,
                               <<[ev |-> "return", err |-> e]>>)
         IN /\ trace' = run.trace
            /\ db' = [db EXCEPT !.ops = @ + 1,
                                !.stmt = IF r = Nil THEN [on |-> "DB", errMap |-> errMap]
                                         ELSE @]
    /\ UNCHANGED <<errMap, committed, call, pc, sqltx, tx, err, panicking, fn, log,
                   obs, cfgHooks, mp, tm, rt, qrow,
                   bt, reg, acc>>

\* results the driver can give for a call on the prepared statement st
StmtOutcomes(st, t, errs) ==
    IF st.on = "Tx" THEN TxOutcomes(t, errs) ELSE {Nil} \cup errs

\* a prepared statement can be used: one of the DB while the DB is used
\* directly, one of a Tx inside that transaction's body
StmtUsable ==
    \/ db.stmt.on = "DB" /\ pc = "idle"
    \/ db.stmt.on = "Tx" /\ pc = "active"

\* Stmt.Exec, of a statement that writes no row
StmtExec ==
    /\ StmtUsable
    /\ db.ops < MaxStmts
    /\ \E r \in StmtOutcomes(db.stmt, sqltx, ExecErrs) :
         LET e == Map(db.stmt.errMap, r)
             run == RunStatement(newHookChain(cfgHooks), "Stmt.Exec", db.stmt.errMap,
                                 <<[ev |-> "ExecContext", err |-> r]>>, e,
                                 <<[ev |-> "return", err |-> e]>>)
         IN trace' = run.trace
    /\ db' = [db EXCEPT !.ops = @ + 1]
    /\ UNCHANGED <<errMap, committed, call, pc, sqltx, tx, err, panicking, fn, log,
                   obs, cfgHooks, mp, tm, rt, qrow,
                   bt, reg, acc>>

\* Stmt.QueryRow(...).Scan(...)
StmtQueryRowScan ==
    /\ StmtUsable
    /\ db.ops < MaxStmts
    /\ \E r \in StmtOutcomes(db.stmt, sqltx, ScanErrs) :
         LET e == Map(db.stmt.errMap, r)
             run == RunStatement(newHookChain(cfgHooks), "Stmt.QueryRow", db.stmt.errMap,
                                 <<[ev |-> "QueryRowContext", err |-> Nil]>>, Nil,
                                 <<[ev |-> "Scan", err |-> r], [ev |-> "return", err |-> e]>>)
         IN trace' = run.trace
    /\ db' = [db EXCEPT !.ops = @ + 1]
    /\ UNCHANGED <<errMap, committed, call, pc, sqltx, tx, err, panicking, fn, log,
                   obs, cfgHooks, mp, tm, rt, qrow,
                   bt, reg, acc>>

\* Tx.Query called by the body
TxQuery ==
    /\ pc = "active"
    /\ fn.stmts < MaxStmts
    /\ \E r \in TxOutcomes(sqltx, QueryErrs) :
         LET e == mapErr(tx.errMap, r)
             run == RunStatement(newHookChain(cfgHooks), "Tx.Query", tx.errMap,
                                 <<[ev |-> "QueryContext", err |-> r]>>, e,
                                 <<[ev |-> "return", err |-> e]>>)
         IN /\ fn' = [stmts |-> fn.stmts + 1, lastErr |-> Returned(run.trace)]
            /\ trace' = run.trace
    /\ UNCHANGED <<errMap, committed, call, pc, sqltx, tx, err, panicking, log, obs,
                   cfgHooks, db, mp, tm, rt, qrow,
                   bt, reg, acc>>

\* Tx.Prepare called by the body: the Stmt keeps the mapper and the hooks of the Tx
TxPrepare ==
    /\ pc = "active"
    /\ fn.stmts < MaxStmts
    /\ \E r \in TxOutcomes(sqltx, PrepareErrs) :
         LET e == mapErr(tx.errMap, r)
             run == RunPrepare("Tx.Prepare", tx.errMap,
                               <<[ev |-> "PrepareContext", err |-> r]>>,
                               <<[ev |-> "return", err |-> e]>>)
         IN /\ fn' = [stmts |-> fn.stmts + 1, lastErr |-> Returned(run.trace)]
            /\ trace' = run.trace
            /\ db' = [db EXCEPT !.stmt = IF r = Nil THEN [on |-> "Tx", errMap |-> tx.errMap]
                                         ELSE @]
    /\ UNCHANGED <<errMap, committed, call, pc, sqltx, tx, err, panicking, log, obs,
                   cfgHooks, mp, tm, rt, qrow,
                   bt, reg, acc>>

NextStmt ==
    \/ \E m \in Mappers : SetErrorMapper(m)
    \/ DBExec
    \/ DBQuery
    \/ DBQueryRowScan
    \/ DBPrepare
    \/ StmtExec
    \/ StmtQueryRowScan
    \/ TxExec
    \/ TxQuery
    \/ TxQueryRowScan
    \/ TxPrepare

SpecStmt == InitStmt /\ [][NextStmt]_vars

\* a classified error whose Cause is or wraps another classified error
DoubleClassified(e) == e.type = "DBError" /\ AsDBError(e.Cause)

\* C12: no error a Tx statement hands to the body and no error ExecTx returns
\* is a classified error around another classified error; a body that returns
\* the error of tx.Exec or of tx.QueryRow(...).Scan as it is gets a result
\* with one classification layer
C12_SingleLayer ==
    /\ ~DoubleClassified(fn.lastErr)
    /\ pc = "returned" => ~DoubleClassified(err)

(***************************************************************************)
(* An ErrorMapper applied on its own: Map(x), Map(Map(x)), ...             *)
(***************************************************************************)
\* errors as they come from a driver, the standard library or a caller
RawInputs == {sqlErrNoRows, sqlErrTxDone, context_deadline_exceeded, context_canceled,
              sqliteUnique, pqTextUnique, pqCodeDeadlock, pqCodeUnique, pgxForeignKey,
              pgxUnique, mysqlDuplicate, badConn, appError, crdbRestart}
\* *DBError values of every Kind over every raw Cause
ClassifiedInputs == {DBError(s, c) : s \in Sentinels, c \in RawInputs}
\* %w wrappers whose text shows one error and whose chain holds another
WrappedInputs == {RollbackFailed(a, b) : a \in {badConn, sqliteUnique, pqTextUnique},
                                         b \in RawInputs}
MapInputs == {Nil} \cup RawInputs \cup ClassifiedInputs \cup WrappedInputs

\* the mappers of the package and of its README: the default, chains with and
\* without the default at their end, the empty chain, a caller's mapper
MapMappers == Mappers \cup
              {crdbMapper,
               ChainMapper(<<crdbMapper>>),
               ChainMapper(<<crdbMapper, DefaultErrorMapper>>),
               ChainMapper(<<DefaultErrorMapper, crdbMapper>>)}

InitMap ==
    /\ errMap = DefaultErrorMapper
    /\ committed = {}
    /\ call = 0
    /\ pc = "idle"
    /\ sqltx = NoTx
    /\ tx = [sqltx |-> 0, errMap |-> DefaultErrorMapper]
    /\ err = Nil
    /\ panicking = NoPanic
    /\ fn = NewFn
    /\ trace = <<>>
    /\ log = <<>>
    /\ obs = NoObs
    /\ cfgHooks = ConfigHooks
    /\ db = NewDB
    /\ tm = NoCall
    /\ rt = NoRetry
    /\ qrow = NoRow
    /\ bt = NoBatch
    /\ reg = NoRegistry
    /\ acc = NoAccess
    /\ \E m \in MapMappers, x \in MapInputs : mp = [mapper |-> m, vals |-> <<x>>]

\* m.Map applied to the latest value
MapApply ==
    /\ mp.vals # <<>>
    /\ Len(mp.vals) <= MaxMaps
    /\ mp' = [mp EXCEPT !.vals = Append(@, Map(mp.mapper, mp.vals[Len(mp.vals)]))]
    /\ UNCHANGED <<errMap, committed, call, pc, sqltx, tx, err, panicking, fn, trace,
                   log, obs, cfgHooks, db, tm, rt, qrow,
                   bt, reg, acc>>

NextMap == MapApply

SpecMap == InitMap /\ [][NextMap]_vars

\* the applications made so far: <<input, result>> pairs
MapSteps == {<<mp.vals[i], mp.vals[i + 1]>> : i \in 1..(Len(mp.vals) - 1)}

\* C11: the default mapper hands every *DBError back as it is, whatever its
\* Kind and Cause, so that mapping a result again changes nothing
C11_ClassifiedUnchanged ==
    mp.mapper = DefaultErrorMapper =>
        \A st \in MapSteps : st[1].type = "DBError" => st[2] = st[1]

\* the vendor classifiers in the order lib/pq, pgx, MySQL, SQLite
Classifiers(x) == <<mapPQError(x), mapPGXError(x), mapMySQLError(x), mapSQLiteError(x)>>
\* the first non-nil result of the classifiers, Nil when all four decline
FirstClassified(x) ==
    LET cs == Classifiers(x)
    IN FirstOf(cs, {i \in 1..Len(cs) : cs[i] # Nil})

\* the reference without a step for already classified errors
Reference(x) ==
    IF x = Nil THEN Nil
    ELSE IF ErrorsIs(x, sqlErrNoRows) THEN DBError(ErrNotFound, x)
    ELSE IF ErrorsIs(x, context_deadline_exceeded) \/ ErrorsIs(x, context_canceled)
         THEN DBError(ErrTimeout, x)
    ELSE IF FirstClassified(x) # Nil THEN FirstClassified(x)
    ELSE x

\* the reference with that step, between the context test and the classifiers
ReferenceClassifiedFirst(x) ==
    IF x = Nil THEN Nil
    ELSE IF ErrorsIs(x, sqlErrNoRows) THEN DBError(ErrNotFound, x)
    ELSE IF ErrorsIs(x, context_deadline_exceeded) \/ ErrorsIs(x, context_canceled)
         THEN DBError(ErrTimeout, x)
    ELSE IF \E i \in 1..Len(Chain(x)) : Chain(x)[i].type = "DBError" THEN x
    ELSE IF FirstClassified(x) # Nil THEN FirstClassified(x)
    ELSE x

\* C13 as stated: the default mapper agrees on every input with the reference
\* nil, NotFound, Timeout, first non-nil vendor classifier, input unchanged
C13_Reference ==
    mp.mapper = DefaultErrorMapper =>
        \A st \in MapSteps : st[2] = Reference(st[1])

\* C13: the default mapper agrees on every input with the reference nil,
\* NotFound, Timeout, input unchanged when it is or wraps a *DBError, first
\* non-nil vendor classifier in the order lib/pq, pgx, MySQL, SQLite, input
\* unchanged; a result it classified has the input as Cause and a fixed Kind
C13_ReferenceClassifiedFirst ==
    mp.mapper = DefaultErrorMapper =>
        \A st \in MapSteps :
            /\ st[2] = ReferenceClassifiedFirst(st[1])
            /\ st[2] # st[1] =>
                  /\ st[2].type = "DBError"
                  /\ st[2].Cause = st[1]
                  /\ st[2].Sentinel \in Sentinels

\* an input that two classifiers would classify differently was mapped and
\* got the result of the earlier one
C13_Witness ==
    /\ mp.mapper = DefaultErrorMapper
    /\ \E st \in MapSteps :
         /\ mapPGXError(st[1]) # Nil
         /\ mapSQLiteError(st[1]) # Nil
         /\ mapPGXError(st[1]) # mapSQLiteError(st[1])
         /\ st[2] = mapPGXError(st[1])

\* the result of the first mapper of ms, from position i on, that does not
\* hand x back; the default mapper's result when every one hands it back
RECURSIVE FirstRemapped(_, _, _)
FirstRemapped(ms, i, x) ==
    IF i > Len(ms) THEN defaultMap(x)
    ELSE IF Map(ms[i], x) # x THEN Map(ms[i], x)
    ELSE FirstRemapped(ms, i + 1, x)

\* C15: ChainMapper(m1, ..., mn).Map(x), x non-nil, is the result of the first
\* mi whose Map(x) is not x, and DefaultErrorMapper().Map(x) when every mi
\* hands x back, the empty chain included
C15_ChainFallsBack ==
    mp.mapper.kind = "chain" =>
        \A st \in MapSteps :
            st[1] # Nil => st[2] = FirstRemapped(mp.mapper.ms, 1, st[1])

(***************************************************************************)
(* Properties of statements and hooks                                      *)
(***************************************************************************)
\* positions of the events of kind ev in trace t
At(t, ev) == {i \in 1..Len(t) : t[i].ev = ev}
\* positions at which the statement of trace t was handed to the driver
DispatchAt(t) == {i \in 1..Len(t) : t[i].ev \in DriverCalls}
\* the operation trace t is of, "" before the first statement
OpOf(t) == IF t = <<>> THEN "" ELSE t[1].op
\* what the driver answered: Scan's error for QueryRow, the call's otherwise
DriverResult(t) ==
    IF At(t, "Scan") # {} THEN t[CHOOSE i \in At(t, "Scan") : TRUE].err
    ELSE IF DispatchAt(t) # {} THEN t[CHOOSE i \in DispatchAt(t) : TRUE].err
    ELSE Nil
\* the mappers Open and OpenWithDriver install
InstalledByOpen == {DefaultErrorMapper, ChainMapper(<<DefaultErrorMapper, DefaultErrorMapper>>)}

\* C14: a unique-key violation in any backend's native form (SQLSTATE 23505
\* through a code accessor, through pgx's SQLState, or only in the message
\* text; MySQL error 1062; SQLite's UNIQUE constraint failed) comes back
\* classified as DuplicateKey and as no other Kind, so the second of two
\* colliding inserts through DB.Exec gives an error IsDuplicateKey accepts
C14_UniqueIsDuplicateKey ==
    (/\ trace # <<>>
     /\ trace[1].errMap \in InstalledByOpen
     /\ DriverResult(trace) \in UniqueForms)
    => /\ IsDuplicateKey(Returned(trace))
       /\ Returned(trace).type = "DBError"
       /\ Returned(trace).Sentinel = ErrDuplicateKey
       /\ Returned(trace).Cause = DriverResult(trace)
       /\ \A k \in Sentinels \ {ErrDuplicateKey} : ~ErrorsIs(Returned(trace), k)

\* the second insert of a key through DB.Exec collided, reported as text only
C14_Witness ==
    /\ OpOf(trace) = "DB.Exec"
    /\ db.ops = 2
    /\ trace[1].errMap = DefaultErrorMapper
    /\ DriverResult(trace) = pqTextUnique
    /\ IsDuplicateKey(Returned(trace))

\* the statement of trace t is of an operation that runs the hook chain
RunsHooks(t) == t # <<>> /\ OpOf(t) \notin {"DB.Prepare", "Tx.Prepare"}
\* positions of the non-nil entries of Config.Hooks, ascending
NonNil(hooks) ==
    LET idx == [i \in 1..Len(hooks) |-> i]
        set(i) == hooks[i] # "nil"
    IN SelectSeq(idx, set)
\* the hooks entered by the events of kind ev of trace t, in order
Entered(t, ev) ==
    LET is(e) == e.ev = ev
        es == SelectSeq(t, is)
    IN [i \in 1..Len(es) |-> es[i].hook]
\* entries of Config.Hooks that panic in one of their methods
Panicky == {i \in 1..Len(cfgHooks) : cfgHooks[i] \in {"panicBefore", "panicAfter", "panicking"}}

\* C16: whichever hooks of Config.Hooks panic in BeforeQuery and/or
\* AfterQuery, a statement is dispatched exactly once, the caller gets the
\* error it gets without hooks, no panic leaves the operation, and every
\* hook's BeforeQuery and AfterQuery is entered once, on every statement
C16_HookPanicsIsolated ==
    RunsHooks(trace) =>
        /\ Cardinality(DispatchAt(trace)) = 1
        /\ At(trace, "panic") = {}
        /\ trace[Len(trace)].ev = "return"
        /\ Returned(trace) = Map(trace[1].errMap, DriverResult(trace))
        /\ \A i \in 1..Len(cfgHooks) :
             cfgHooks[i] # "nil" =>
                /\ Cardinality({j \in At(trace, "BeforeQuery") : trace[j].hook = i}) = 1
                /\ Cardinality({j \in At(trace, "AfterQuery") : trace[j].hook = i}) = 1

\* on the second statement of the DB a hook that panics in both methods, and
\* had done so on the first, was entered again and so was the hook after it
C16_Witness ==
    /\ db.ops = 2
    /\ cfgHooks = <<"panicking", "counting">>
    /\ OpOf(trace) = "DB.Exec"
    /\ Entered(trace, "slog.Error") = <<1, 1>>
    /\ Entered(trace, "BeforeQuery") = <<1, 2>>
    /\ Entered(trace, "AfterQuery") = <<1, 2>>
    /\ Returned(trace) # Nil

\* C17: the chain built from Config.Hooks enters, on each Before and on each
\* After of a statement, exactly the non-nil entries of the list, each once,
\* in list order; a nil entry is never called
C17_NonNilInOrder ==
    RunsHooks(trace) =>
        /\ Entered(trace, "BeforeQuery") = NonNil(cfgHooks)
        /\ Entered(trace, "AfterQuery") = NonNil(cfgHooks)

\* one DB.Exec on a DB whose list is a nil entry and one hook: one
\* BeforeQuery and one AfterQuery, both of that hook
C17_Witness ==
    /\ cfgHooks = <<"nil", "counting">>
    /\ OpOf(trace) = "DB.Exec"
    /\ db.ops = 1
    /\ Entered(trace, "BeforeQuery") = <<2>>
    /\ Entered(trace, "AfterQuery") = <<2>>

\* C18: the err every AfterQuery is given is the error the caller of the
\* statement receives (for QueryRow the one Row.Scan returns), nil only
\* when the caller sees success
C18_AfterSeesCallerError ==
    RunsHooks(trace) =>
        \A j \in At(trace, "AfterQuery") : trace[j].err = Returned(trace)

\* C19: Exec, Query, QueryRow and Prepare, on DB and on Tx, each call every
\* hook's BeforeQuery once before the statement is dispatched and every
\* hook's AfterQuery once after it
C19_HooksAroundEveryOperation ==
    (trace # <<>> /\ OpOf(trace) \in {"DB.Exec", "DB.Query", "DB.QueryRow", "DB.Prepare",
                                       "Tx.Exec", "Tx.Query", "Tx.QueryRow", "Tx.Prepare"})
    => \A i \in 1..Len(cfgHooks) :
          cfgHooks[i] # "nil" =>
             \A d \in DispatchAt(trace) :
                /\ Cardinality({j \in At(trace, "BeforeQuery") : trace[j].hook = i /\ j < d}) = 1
                /\ Cardinality({j \in At(trace, "AfterQuery") : trace[j].hook = i /\ j > d}) = 1

\* C20: within one statement every BeforeQuery comes before the dispatch
\* to the driver and every AfterQuery after it
C20_BeforeDispatchAfter ==
    \A d \in DispatchAt(trace) :
        /\ \A b \in At(trace, "BeforeQuery") : b < d
        /\ \A a \in At(trace, "AfterQuery") : d < a

\* a Tx.Query with two hooks around its dispatch
C20_Witness ==
    /\ OpOf(trace) = "Tx.Query"
    /\ Cardinality(At(trace, "BeforeQuery")) = 2
    /\ Cardinality(At(trace, "AfterQuery")) = 2
    /\ Cardinality(DispatchAt(trace)) = 1

(***************************************************************************)
(* Contexts and the default timeout.  A context is [deadline, derived]:    *)
(* its deadline (NoDeadline when it has none) and whether it is a child    *)
(* this package made with context.WithTimeout.                             *)
(***************************************************************************)
NoDeadline == -1
HasDeadline(ctx) == ctx.deadline # NoDeadline
\* Config.DefaultTimeout values, zero for "none"
DefaultTimeouts == {0, 1, 2}
\* contexts a caller passes in
CallerCtxs == {[deadline |-> d, derived |-> FALSE] : d \in {NoDeadline} \cup 0..MaxTime}

\* context.WithTimeout(ctx, d) at instant now: the earlier of the parent's
\* deadline and now + d
WithTimeout(ctx, d, now) ==
    [deadline |-> IF HasDeadline(ctx) /\ ctx.deadline < now + d THEN ctx.deadline
                  ELSE now + d,
     derived |-> TRUE]

\* the default timeout put on every context, whatever deadline it has
applyDefaultTimeoutAlways(dt, ctx, now) ==
    IF dt = 0 THEN ctx ELSE WithTimeout(ctx, dt, now)

\* DB.applyDefaultTimeout
applyDefaultTimeout(dt, ctx, now) ==
    IF dt = 0 THEN ctx
    ELSE IF HasDeadline(ctx) THEN ctx
    ELSE WithTimeout(ctx, dt, now)

\* the methods of DB that hand a context to the driver
DBOps == {"DB.Exec", "DB.Query", "DB.QueryRow", "DB.Prepare", "DB.Ping", "DB.ExecTx"}
\* the methods of Tx and Stmt that do
TxOps == {"Tx.Exec", "Tx.Query", "Tx.QueryRow", "Tx.Prepare", "Stmt.Exec", "Stmt.QueryRow"}

InitTimeout ==
    /\ errMap = DefaultErrorMapper
    /\ committed = {}
    /\ call = 0
    /\ pc = "idle"
    /\ sqltx = NoTx
    /\ tx = [sqltx |-> 0, errMap |-> DefaultErrorMapper]
    /\ err = Nil
    /\ panicking = NoPanic
    /\ fn = NewFn
    /\ trace = <<>>
    /\ log = <<>>
    /\ obs = NoObs
    /\ cfgHooks = ConfigHooks
    /\ db = NewDB
    /\ mp = NoMap
    /\ rt = NoRetry
    /\ qrow = NoRow
    /\ bt = NoBatch
    /\ reg = NoRegistry
    /\ acc = NoAccess
    /\ \E dt \in DefaultTimeouts, c \in CallerCtxs :
         tm = [op |-> "none", DefaultTimeout |-> dt, now |-> 0, ctx |-> c,
               at |-> 0, driverCtx |-> c]

\* the clock advances
Tick ==
    /\ tm.now < MaxTime
    /\ tm' = [tm EXCEPT !.now = @ + 1]
    /\ UNCHANGED <<errMap, committed, call, pc, sqltx, tx, err, panicking, fn, trace,
                   log, obs, cfgHooks, db, mp, rt, qrow,
                   bt, reg, acc>>

\* a method of DB up to its driver call: ctx = d.applyDefaultTimeout(ctx),
\* then the driver is called with ctx
DBCall(op) ==
    /\ tm' = [tm EXCEPT !.op = op, !.at = tm.now,
                        !.driverCtx = applyDefaultTimeout(tm.DefaultTimeout, tm.ctx, tm.now)]
    /\ UNCHANGED <<errMap, committed, call, pc, sqltx, tx, err, panicking, fn, trace,
                   log, obs, cfgHooks, db, mp, rt, qrow,
                   bt, reg, acc>>

\* a method of Tx or Stmt up to its driver call: the driver is called with
\* the ctx the caller passed
TxCall(op) ==
    /\ tm' = [tm EXCEPT !.op = op, !.at = tm.now, !.driverCtx = tm.ctx]
    /\ UNCHANGED <<errMap, committed, call, pc, sqltx, tx, err, panicking, fn, trace,
                   log, obs, cfgHooks, db, mp, rt, qrow,
                   bt, reg, acc>>

NextTimeout ==
    \/ Tick
    \/ \E op \in DBOps : DBCall(op)
    \/ \E op \in TxOps : TxCall(op)

SpecTimeout == InitTimeout /\ [][NextTimeout]_vars

\* C21: a DB operation called with a context that has a deadline hands that
\* context to the driver as it is, whether its deadline is before or after
\* the default one; called with a context without deadline it hands over a
\* context whose deadline is the call time plus DefaultTimeout when that is
\* non-zero and the caller's context when it is zero; the driver's deadline
\* is never later than the caller's
C21_DefaultTimeout ==
    tm.op \in DBOps =>
        /\ HasDeadline(tm.ctx) => tm.driverCtx = tm.ctx
        /\ (~HasDeadline(tm.ctx) /\ tm.DefaultTimeout # 0) =>
               tm.driverCtx.deadline = tm.at + tm.DefaultTimeout
        /\ tm.DefaultTimeout = 0 => tm.driverCtx = tm.ctx
        /\ HasDeadline(tm.ctx) =>
               HasDeadline(tm.driverCtx) /\ tm.driverCtx.deadline <= tm.ctx.deadline

\* DB.Query called with a deadline later than the default one would be
C21_Witness ==
    /\ tm.op = "DB.Query"
    /\ tm.DefaultTimeout = 1
    /\ HasDeadline(tm.ctx)
    /\ tm.ctx.deadline > tm.at + tm.DefaultTimeout
    /\ tm.driverCtx = tm.ctx

\* C22: Tx.Exec, Tx.Query, Tx.QueryRow, Tx.Prepare, Stmt.Exec and
\* Stmt.QueryRow, called with a context without deadline on a DB whose
\* DefaultTimeout is positive, call the driver with a context whose deadline
\* is at most DefaultTimeout from the call
C22_TxDefaultTimeout ==
    (tm.op \in TxOps /\ ~HasDeadline(tm.ctx) /\ tm.DefaultTimeout > 0) =>
        /\ HasDeadline(tm.driverCtx)
        /\ tm.driverCtx.deadline <= tm.at + tm.DefaultTimeout

(***************************************************************************)
(* DB.QueryRow and Row.Scan as the two calls they are                      *)
(***************************************************************************)
\* what (*sql.Row).Scan can report besides success
RowScanErrs == ScanErrs \cup {badConn, context_deadline_exceeded}

InitRow ==
    /\ errMap = DefaultErrorMapper
    /\ committed = {}
    /\ call = 0
    /\ pc = "idle"
    /\ sqltx = NoTx
    /\ tx = [sqltx |-> 0, errMap |-> DefaultErrorMapper]
    /\ err = Nil
    /\ panicking = NoPanic
    /\ fn = NewFn
    /\ trace = <<>>
    /\ log = <<>>
    /\ obs = NoObs
    /\ cfgHooks \in HookLists
    /\ db = NewDB
    /\ mp = NoMap
    /\ tm = NoCall
    /\ rt = NoRetry
    /\ qrow = NoRow
    /\ bt = NoBatch
    /\ reg = NoRegistry
    /\ acc = NoAccess

\* DB.QueryRow: hooks, the driver call, hooks with nil, and a Row that keeps
\* the DB's mapper of this moment; no error is returned
DBQueryRow ==
    /\ pc = "idle"
    /\ ~qrow.open
    /\ db.ops < MaxStmts
    /\ LET run == RunStatement(newHookChain(cfgHooks), "DB.QueryRow", errMap,
                               <<[ev |-> "QueryRowContext", err |-> Nil]>>, Nil, <<>>)
       IN trace' = run.trace
    /\ qrow' = [open |-> TRUE, errMap |-> errMap]
    /\ db' = [db EXCEPT !.ops = @ + 1]
    /\ UNCHANGED <<errMap, committed, call, pc, sqltx, tx, err, panicking, fn, log,
                   obs, cfgHooks, mp, tm, rt,
                   bt, reg, acc>>

\* a Row that classifies with the mapper the DB has when Scan is called
RowMapperOfDB(r, d) == d

\* the mapper Row.Scan classifies with: r.errMap, whatever the DB's is by now
RowMapper(r, d) == r.errMap

\* Row.Scan: err := r.raw.Scan(dest...); return r.errMap.Map(err)
RowScan ==
    /\ qrow.open
    /\ \E r \in {Nil} \cup RowScanErrs :
         trace' = trace \o <<[ev |-> "Scan", err |-> r],
                             [ev |-> "return", err |-> Map(RowMapper(qrow, errMap), r)]>>
    /\ qrow' = [qrow EXCEPT !.open = FALSE]
    /\ UNCHANGED <<errMap, committed, call, pc, sqltx, tx, err, panicking, fn, log,
                   obs, cfgHooks, db, mp, tm, rt,
                   bt, reg, acc>>

NextRow ==
    \/ \E m \in Mappers : SetErrorMapper(m)
    \/ DBQueryRow
    \/ RowScan

SpecRow == InitRow /\ [][NextRow]_vars

\* C23: QueryRow reports no error itself; Row.Scan gives nil when a row
\* matched, an error IsNotFound accepts with the driver's no-rows error as
\* Cause when none matched, and any other driver failure as classified by
\* the mapper that was the DB's when QueryRow was called
C23_ScanClassifies ==
    /\ (trace # <<>> /\ At(trace, "Scan") = {}) => At(trace, "return") = {}
    /\ (trace # <<>> /\ At(trace, "Scan") # {}) =>
          LET r == DriverResult(trace)
              m == trace[1].errMap
          IN /\ r = Nil => Returned(trace) = Nil
             /\ (r = sqlErrNoRows /\ m \in InstalledByOpen) =>
                    /\ IsNotFound(Returned(trace))
                    /\ Returned(trace).Cause = sqlErrNoRows
             /\ r # Nil => Returned(trace) = Map(m, r)

\* a Row scanned after the DB's mapper was replaced found no row
C23_Witness ==
    /\ trace # <<>>
    /\ At(trace, "Scan") # {}
    /\ trace[1].errMap = DefaultErrorMapper
    /\ errMap # DefaultErrorMapper
    /\ DriverResult(trace) = sqlErrNoRows
    /\ IsNotFound(Returned(trace))

(***************************************************************************)
(* A Tx handle used after ExecTx has left                                  *)
(***************************************************************************)
TxHandleOps == {"Tx.Exec", "Tx.Query", "Tx.QueryRow", "Tx.Prepare"}

\* what the sql.Tx in state t answers to the driver call of op
TxHandleOutcomes(op, t) ==
    CASE op = "Tx.Exec" -> ExecOutcomes(t)
      [] op = "Tx.Query" -> TxOutcomes(t, QueryErrs)
      [] op = "Tx.QueryRow" -> ScanOutcomes(t)
      [] op = "Tx.Prepare" -> TxOutcomes(t, PrepareErrs)

\* the statement op on the Tx with mapper m when the sql.Tx answers r
TxHandleRun(op, m, r) ==
    CASE op = "Tx.Exec" ->
           RunStatement(newHookChain(cfgHooks), op, m,
                        <<[ev |-> "ExecContext", err |-> r]>>, mapErr(m, r),
                        <<[ev |-> "return", err |-> mapErr(m, r)]>>)
      [] op = "Tx.Query" ->
           RunStatement(newHookChain(cfgHooks), op, m,
                        <<[ev |-> "QueryContext", err |-> r]>>, mapErr(m, r),
                        <<[ev |-> "return", err |-> mapErr(m, r)]>>)
      [] op = "Tx.QueryRow" ->
           RunStatement(newHookChain(cfgHooks), op, m,
                        <<[ev |-> "QueryRowContext", err |-> Nil]>>, Nil,
                        <<[ev |-> "Scan", err |-> r], [ev |-> "return", err |-> Map(m, r)]>>)
      [] op = "Tx.Prepare" ->
           RunPrepare(op, m, <<[ev |-> "PrepareContext", err |-> r]>>,
                      <<[ev |-> "return", err |-> mapErr(m, r)]>>)

\* a caller that kept the *Tx given to its body uses it once ExecTx has left
TxAfterExecTx(op) ==
    /\ Left
    /\ obs.begin = Nil
    /\ fn.stmts < MaxStmts
    /\ \E r \in TxHandleOutcomes(op, sqltx) :
         LET run == TxHandleRun(op, tx.errMap, r)
             row == <<tx.sqltx, Cardinality(obs.wrote) + 1>>
             wrote == op = "Tx.Exec" /\ r = Nil /\ Dispatched(run.trace)
         IN /\ sqltx' = IF wrote THEN [sqltx EXCEPT !.pending = @ \cup {row}] ELSE sqltx
            /\ obs' = IF wrote THEN [obs EXCEPT !.wrote = @ \cup {row}] ELSE obs
            /\ db' = IF op = "Tx.Prepare" /\ r = Nil
                     THEN [db EXCEPT !.stmt = [on |-> "Tx", errMap |-> tx.errMap]]
                     ELSE db
            /\ fn' = [stmts |-> fn.stmts + 1, lastErr |-> Returned(run.trace)]
            /\ trace' = run.trace
    /\ UNCHANGED <<errMap, committed, call, pc, tx, err, panicking, log, cfgHooks, mp,
                   tm, rt, qrow,
                   bt, reg, acc>>

NextTxHandle ==
    \/ ExecTxBegin
    \/ ExecTxInvoke
    \/ CtxDone
    \/ AwaitDone
    \/ TxExec
    \/ TxQueryRowScan
    \/ FnReturn
    \/ FnPanic
    \/ ExecTxCommit
    \/ ExecTxDeferred
    \/ \E op \in TxHandleOps : TxAfterExecTx(op)

SpecTxHandle == Init /\ [][NextTxHandle]_vars

\* C24: once ExecTx has left after Commit or Rollback, an Exec, Query,
\* QueryRow+Scan or Prepare on the Tx it handed to the body returns a non-nil
\* error and changes neither the committed rows nor the transaction
C24_ClosedHandleFails ==
    [][(Left /\ fn'.stmts = fn.stmts + 1) =>
          /\ trace'[Len(trace')].ev = "return"
          /\ Returned(trace') # Nil
          /\ committed' = committed
          /\ sqltx' = sqltx
          /\ db'.stmt = db.stmt]_vars

\* the body succeeded, Commit succeeded, and a later statement on the Tx was
\* refused by the closed sql.Tx
C24_Witness ==
    /\ Left
    /\ obs.fnRet = Nil
    /\ obs.commit = Nil
    /\ committed # {}
    /\ trace # <<>>
    /\ OpOf(trace) \in TxHandleOps
    /\ DriverResult(trace) = sqlErrTxDone
    /\ Returned(trace) # Nil

(***************************************************************************)
(* WithRetry                                                               *)
(***************************************************************************)
\* RetryConfig values tried: MaxAttempts is an int, Delay a Duration, RetryOn
\* nil or the predicate of the tests, errors.Is(err, transient)
RetryConfigs ==
    [MaxAttempts : -1..MaxTries, Delay : {0, 1}, RetryOn : {"nil", "isTransient"}]

\* what fn returns when it fails
FnErrs == {transient, DBError(ErrDeadlock, pqCodeDeadlock),
           DBError(ErrTimeout, context_deadline_exceeded),
           DBError(ErrNotFound, sqlErrNoRows)}

\* a predicate that retries whatever the error is
retryOnAlways(p, e) == TRUE

\* retryOn(err) for cfg.RetryOn = p
retryOn(p, e) ==
    IF p = "nil" THEN IsDeadlock(e) \/ IsTimeout(e) ELSE ErrorsIs(e, transient)

\* WithRetry has been called with cfg and a context whose Err() is c
NewRetry(cfg, c) ==
    [pc |-> "entry", cfg |-> cfg, ctxErr |-> c, ctxOnEntry |-> c, attempt |-> 0, errs |-> <<>>,
     waits |-> <<>>, elapsed |-> 0, selects |-> 0, cancelSeen |-> FALSE,
     how |-> "", result |-> Nil]

\* lastErr
LastErr(r) == IF r.errs = <<>> THEN Nil ELSE r.errs[Len(r.errs)]

\* a loop that runs while attempt <= cfg.MaxAttempts
LoopHeadOneMore(r) ==
    IF r.attempt <= r.cfg.MaxAttempts /\ r.cfg.MaxAttempts >= 0
    THEN IF r.attempt > 0
         THEN [r EXCEPT !.pc = "wait", !.elapsed = 0, !.selects = @ + 1,
                        !.cancelSeen = @ \/ r.ctxErr # Nil]
         ELSE [r EXCEPT !.pc = "call"]
    ELSE [r EXCEPT !.pc = "returned", !.how = "return fmt.Errorf",
                   !.result = AttemptsFailed(r.cfg.MaxAttempts, LastErr(r))]

\* a loop that enters the select before every attempt
LoopHeadWaitsFirst(r) ==
    IF r.attempt < r.cfg.MaxAttempts
    THEN [r EXCEPT !.pc = "wait", !.elapsed = 0, !.selects = @ + 1,
                   !.cancelSeen = @ \/ r.ctxErr # Nil]
    ELSE [r EXCEPT !.pc = "returned", !.how = "return fmt.Errorf",
                   !.result = AttemptsFailed(r.cfg.MaxAttempts, LastErr(r))]

\* a WithRetry that returns lastErr itself once the loop is over
LoopHeadReturnsLast(r) ==
    IF r.attempt < r.cfg.MaxAttempts
    THEN IF r.attempt > 0
         THEN [r EXCEPT !.pc = "wait", !.elapsed = 0, !.selects = @ + 1,
                        !.cancelSeen = @ \/ r.ctxErr # Nil]
         ELSE [r EXCEPT !.pc = "call"]
    ELSE [r EXCEPT !.pc = "returned", !.how = "return fmt.Errorf",
                   !.result = LastErr(r)]

\* a WithRetry that tests ctx.Err() at the top of every iteration
LoopHeadChecksCtx(r) ==
    IF r.attempt < r.cfg.MaxAttempts
    THEN IF r.ctxErr # Nil
         THEN [r EXCEPT !.pc = "returned", !.how = "return ctx.Err()",
                        !.result = r.ctxErr]
         ELSE IF r.attempt > 0
         THEN [r EXCEPT !.pc = "wait", !.elapsed = 0, !.selects = @ + 1]
         ELSE [r EXCEPT !.pc = "call"]
    ELSE [r EXCEPT !.pc = "returned", !.how = "return fmt.Errorf",
                   !.result = AttemptsFailed(r.cfg.MaxAttempts, LastErr(r))]

\* the loop condition and what follows it up to the next blocking point:
\* the select (entered with a context that may be done already), the call of
\* fn, or the return after the loop
LoopHead(r) ==
    IF r.attempt < r.cfg.MaxAttempts
    THEN IF r.attempt > 0
         THEN [r EXCEPT !.pc = "wait", !.elapsed = 0, !.selects = @ + 1,
                        !.cancelSeen = @ \/ r.ctxErr # Nil]
         ELSE [r EXCEPT !.pc = "call"]
    ELSE [r EXCEPT !.pc = "returned", !.how = "return fmt.Errorf",
                   !.result = AttemptsFailed(r.cfg.MaxAttempts, LastErr(r))]

\* a WithRetry that reports the first failure once an attempt succeeded
AfterAttemptKeepsFirst(r, e) ==
    LET q == [r EXCEPT !.errs = Append(@, e)]
    IN IF e = Nil
       THEN [q EXCEPT !.pc = "returned", !.how = "return nil", !.result = q.errs[1]]
       ELSE IF ~retryOn(q.cfg.RetryOn, e)
       THEN [q EXCEPT !.pc = "returned", !.how = "return lastErr", !.result = e]
       ELSE LoopHead([q EXCEPT !.attempt = @ + 1])

\* lastErr = fn() gave e: return nil, return lastErr, or attempt++
AfterAttempt(r, e) ==
    LET q == [r EXCEPT !.errs = Append(@, e)]
    IN IF e = Nil
       THEN [q EXCEPT !.pc = "returned", !.how = "return nil", !.result = Nil]
       ELSE IF ~retryOn(q.cfg.RetryOn, e)
       THEN [q EXCEPT !.pc = "returned", !.how = "return lastErr", !.result = e]
       ELSE LoopHead([q EXCEPT !.attempt = @ + 1])

InitRetry ==
    /\ errMap = DefaultErrorMapper
    /\ committed = {}
    /\ call = 0
    /\ pc = "idle"
    /\ sqltx = NoTx
    /\ tx = [sqltx |-> 0, errMap |-> DefaultErrorMapper]
    /\ err = Nil
    /\ panicking = NoPanic
    /\ fn = NewFn
    /\ trace = <<>>
    /\ log = <<>>
    /\ obs = NoObs
    /\ cfgHooks = ConfigHooks
    /\ db = NewDB
    /\ mp = NoMap
    /\ tm = NoCall
    /\ qrow = NoRow
    /\ bt = NoBatch
    /\ reg = NoRegistry
    /\ acc = NoAccess
    /\ \E cfg \in RetryConfigs, c \in {Nil} \cup ContextErrs : rt = NewRetry(cfg, c)

\* WithRetry up to its first blocking point
WithRetryEnter ==
    /\ rt.pc = "entry"
    /\ rt' = LoopHead(rt)
    /\ UNCHANGED <<errMap, committed, call, pc, sqltx, tx, err, panicking, fn, trace,
                   log, obs, cfgHooks, db, mp, tm, qrow,
                   bt, reg, acc>>

\* lastErr = fn() and the two tests after it
RetryAttempt ==
    /\ rt.pc = "call"
    /\ \E e \in {Nil} \cup FnErrs : rt' = AfterAttempt(rt, e)
    /\ UNCHANGED <<errMap, committed, call, pc, sqltx, tx, err, panicking, fn, trace,
                   log, obs, cfgHooks, db, mp, tm, qrow,
                   bt, reg, acc>>

\* time passes while WithRetry is blocked in the select; with a done context
\* the select does not stay blocked
RetryWaitTick ==
    /\ rt.pc = "wait"
    /\ rt.ctxErr = Nil
    /\ rt.elapsed < rt.cfg.Delay
    /\ rt' = [rt EXCEPT !.elapsed = @ + 1]
    /\ UNCHANGED <<errMap, committed, call, pc, sqltx, tx, err, panicking, fn, trace,
                   log, obs, cfgHooks, db, mp, tm, qrow,
                   bt, reg, acc>>

\* case <-ctx.Done(): return ctx.Err()
RetryWaitDone ==
    /\ rt.pc = "wait"
    /\ rt.ctxErr # Nil
    /\ rt' = [rt EXCEPT !.pc = "returned", !.how = "return ctx.Err()",
                        !.result = rt.ctxErr]
    /\ UNCHANGED <<errMap, committed, call, pc, sqltx, tx, err, panicking, fn, trace,
                   log, obs, cfgHooks, db, mp, tm, qrow,
                   bt, reg, acc>>

\* case <-time.After(cfg.Delay): when both cases are ready select takes
\* either one
RetryWaitTimer ==
    /\ rt.pc = "wait"
    /\ rt.elapsed >= rt.cfg.Delay
    /\ rt' = [rt EXCEPT !.pc = "call", !.waits = Append(@, rt.elapsed)]
    /\ UNCHANGED <<errMap, committed, call, pc, sqltx, tx, err, panicking, fn, trace,
                   log, obs, cfgHooks, db, mp, tm, qrow,
                   bt, reg, acc>>

\* the context is cancelled or its deadline passes while WithRetry runs
RetryCancel ==
    /\ rt.pc \in {"wait", "call"}
    /\ rt.ctxErr = Nil
    /\ \E c \in ContextErrs :
         rt' = [rt EXCEPT !.ctxErr = c,
                          !.cancelSeen = @ \/ (rt.pc = "wait" /\ rt.elapsed < rt.cfg.Delay)]
    /\ UNCHANGED <<errMap, committed, call, pc, sqltx, tx, err, panicking, fn, trace,
                   log, obs, cfgHooks, db, mp, tm, qrow,
                   bt, reg, acc>>

NextRetry ==
    \/ WithRetryEnter
    \/ RetryAttempt
    \/ RetryWaitTick
    \/ RetryWaitDone
    \/ RetryWaitTimer
    \/ RetryCancel

SpecRetry == InitRetry /\ [][NextRetry]_vars

\* number of calls of fn so far
Invocations == Len(rt.errs)
\* every attempt so far failed with an error the predicate accepts
AllRetryable ==
    \A i \in 1..Len(rt.errs) : rt.errs[i] # Nil /\ retryOn(rt.cfg.RetryOn, rt.errs[i])

\* C25: with MaxAttempts = n >= 1, a context never cancelled and an
\* operation that fails every time with an error the predicate accepts,
\* WithRetry calls it exactly n times and returns a composite error naming n
\* and wrapping the last error; fn is never called more than MaxAttempts times
C25_Exhausts ==
    /\ Invocations <= (IF rt.cfg.MaxAttempts > 0 THEN rt.cfg.MaxAttempts ELSE 0)
    /\ (rt.pc = "returned" /\ rt.cfg.MaxAttempts >= 1 /\ rt.ctxErr = Nil /\ AllRetryable) =>
          /\ Invocations = rt.cfg.MaxAttempts
          /\ rt.result = AttemptsFailed(rt.cfg.MaxAttempts, LastErr(rt))
          /\ Unwrap(rt.result) = LastErr(rt)
          /\ ErrorsIs(rt.result, LastErr(rt))
          /\ Contains(ErrorText(rt.result), ToString(rt.cfg.MaxAttempts))

\* every attempt of the largest policy failed, the last one differently from
\* the first
C25_Witness ==
    /\ rt.pc = "returned"
    /\ rt.cfg.MaxAttempts = MaxTries
    /\ rt.ctxErr = Nil
    /\ AllRetryable
    /\ Invocations = MaxTries
    /\ rt.errs[1] # rt.errs[MaxTries]
    /\ rt.result = AttemptsFailed(MaxTries, rt.errs[MaxTries])

\* attempt i failed and WithRetry went on (or ran out of attempts) instead of
\* returning its error
Accepted(i) == ~(i = Len(rt.errs) /\ rt.how = "return lastErr")

\* C26: when an attempt fails with an error the predicate rejects, WithRetry
\* returns that very error at once, with no further wait or call; under a nil
\* RetryOn the errors retried are exactly those IsDeadlock or IsTimeout accept
C26_StopsOnRejected ==
    /\ \A i \in 1..Len(rt.errs) :
          (rt.errs[i] # Nil /\ ~retryOn(rt.cfg.RetryOn, rt.errs[i])) =>
              /\ i = Len(rt.errs)
              /\ rt.pc = "returned"
              /\ rt.how = "return lastErr"
              /\ rt.result = rt.errs[i]
              /\ Len(rt.waits) = i - 1
              /\ rt.selects = i - 1
    /\ rt.cfg.RetryOn = "nil" =>
          \A i \in 1..Len(rt.errs) :
              rt.errs[i] # Nil =>
                 (Accepted(i) <=> (IsDeadlock(rt.errs[i]) \/ IsTimeout(rt.errs[i])))

\* under the default predicate a deadlock was retried and the NotFound of the
\* second attempt was returned as it is
C26_Witness ==
    /\ rt.pc = "returned"
    /\ rt.cfg.RetryOn = "nil"
    /\ rt.cfg.MaxAttempts = MaxTries
    /\ Len(rt.errs) = 2
    /\ IsDeadlock(rt.errs[1])
    /\ IsNotFound(rt.errs[2])
    /\ rt.result = rt.errs[2]

\* C27: when attempt k returns nil, WithRetry returns nil at once: k calls,
\* k-1 waits, nothing of the earlier failures in the result
C27_SuccessReturnsNil ==
    /\ \A i \in 1..Len(rt.errs) : rt.errs[i] = Nil => i = Len(rt.errs)
    /\ (rt.errs # <<>> /\ LastErr(rt) = Nil) =>
          /\ rt.pc = "returned"
          /\ rt.how = "return nil"
          /\ rt.result = Nil
          /\ Len(rt.errs) <= rt.cfg.MaxAttempts
          /\ Len(rt.waits) = Len(rt.errs) - 1
          /\ rt.selects = Len(rt.errs) - 1

\* the last permitted attempt succeeded after failures
C27_Witness ==
    /\ rt.pc = "returned"
    /\ Len(rt.errs) = MaxTries
    /\ rt.errs[1] # Nil
    /\ LastErr(rt) = Nil
    /\ rt.result = Nil

\* C28: WithRetry waits Delay before every attempt but the first and never
\* after the last; a context cancelled before a wait starts or during it makes
\* WithRetry return ctx.Err() without another call of fn, for every Delay >= 0
C28_WaitCancellable ==
    /\ \A i \in 1..Len(rt.waits) : rt.waits[i] = rt.cfg.Delay
    /\ rt.pc = "call" => Len(rt.waits) = Len(rt.errs)
    /\ (rt.pc = "returned" /\ rt.how # "return ctx.Err()" /\ rt.errs # <<>>) =>
          Len(rt.waits) = Len(rt.errs) - 1
    /\ rt.cancelSeen =>
          \/ rt.pc = "wait"
          \/ /\ rt.pc = "returned"
             /\ rt.how = "return ctx.Err()"
             /\ rt.result = rt.ctxErr

\* C29: an operation that ends because its context is done returns an error
\* IsTimeout accepts: a statement whose driver call gave a context error,
\* and WithRetry giving up in the wait between attempts
C29_CancelIsTimeout ==
    /\ \A m \in InstalledByOpen, c \in ContextErrs : IsTimeout(Map(m, c))
    /\ (rt.pc = "returned" /\ rt.how = "return ctx.Err()") => IsTimeout(rt.result)

\* C30: MaxAttempts = 1 means one call of fn, no wait, no look at the
\* context; nil when the call succeeds, otherwise an error through which
\* errors.Is reaches the call's own error
C30_SingleAttempt ==
    rt.cfg.MaxAttempts = 1 =>
        /\ rt.selects = 0
        /\ rt.waits = <<>>
        /\ Len(rt.errs) <= 1
        /\ rt.pc = "returned" =>
              /\ Len(rt.errs) = 1
              /\ rt.how # "return ctx.Err()"
              /\ rt.errs[1] = Nil => rt.result = Nil
              /\ rt.errs[1] # Nil => ErrorsIs(rt.result, rt.errs[1])

\* the single attempt failed retryably under a context cancelled on entry
C30_Witness ==
    /\ rt.cfg.MaxAttempts = 1
    /\ rt.pc = "returned"
    /\ rt.ctxErr # Nil
    /\ Len(rt.errs) = 1
    /\ rt.errs[1] # Nil
    /\ retryOn(rt.cfg.RetryOn, rt.errs[1])
    /\ rt.result = AttemptsFailed(1, rt.errs[1])

\* C37: WithRetry returns nil only when a call of fn returned nil; with
\* MaxAttempts <= 0 fn is never called, nothing is waited for and the result
\* is a non-nil error
C37_NilOnlyOnSuccess ==
    /\ (rt.pc = "returned" /\ rt.result = Nil) =>
          \E i \in 1..Len(rt.errs) : rt.errs[i] = Nil
    /\ rt.cfg.MaxAttempts <= 0 =>
          /\ rt.errs = <<>>
          /\ rt.selects = 0
          /\ rt.waits = <<>>
          /\ rt.pc = "returned" => rt.result # Nil

\* WithRetry has returned under a policy with no attempt at all
C37_Witness ==
    /\ rt.cfg.MaxAttempts <= 0
    /\ rt.pc = "returned"
    /\ rt.errs = <<>>
    /\ rt.result = AttemptsFailed(rt.cfg.MaxAttempts, Nil)

\* C38: with MaxAttempts >= 1 the first call of fn is made whatever the
\* context is on entry; the context is looked at once before each later
\* attempt, never before the first and never after the last
C38_FirstAttemptAlways ==
    rt.cfg.MaxAttempts >= 1 =>
        /\ rt.pc = "returned" => Len(rt.errs) >= 1
        /\ rt.errs = <<>> => (rt.selects = 0 /\ rt.pc \in {"entry", "call"})
        /\ rt.pc \in {"wait", "call"} => rt.selects = rt.attempt
        /\ rt.pc = "returned" =>
              rt.selects = (IF rt.how = "return ctx.Err()" THEN Len(rt.errs)
                            ELSE Len(rt.errs) - 1)
        /\ rt.selects <= rt.cfg.MaxAttempts - 1

\* the context was cancelled on entry, fn was called once all the same, and
\* the wait before the second attempt returned ctx.Err()
C38_Witness ==
    /\ rt.cfg.MaxAttempts >= 2
    /\ rt.ctxOnEntry # Nil
    /\ rt.pc = "returned"
    /\ Len(rt.errs) = 1
    /\ rt.how = "return ctx.Err()"
    /\ rt.result = rt.ctxOnEntry

(***************************************************************************)
(* Statements under a caller's own mapper                                  *)
(***************************************************************************)
\* a DB on which SetErrorMapper installed m, idle or inside the body of an
\* ExecTx call begun after that
InitCustom ==
    /\ committed = {}
    /\ err = Nil
    /\ panicking = NoPanic
    /\ fn = NewFn
    /\ trace = <<>>
    /\ cfgHooks = ConfigHooks
    /\ db = NewDB
    /\ mp = NoMap
    /\ tm = NoCall
    /\ rt = NoRetry
    /\ qrow = NoRow
    /\ bt = NoBatch
    /\ reg = NoRegistry
    /\ acc = NoAccess
    /\ \E m \in {DefaultErrorMapper, wrapAllMapper,
                  ChainMapper(<<wrapAllMapper, DefaultErrorMapper>>)} :
         /\ errMap = m
         /\ \/ /\ pc = "idle"
               /\ call = 0
               /\ sqltx = NoTx
               /\ tx = [sqltx |-> 0, errMap |-> m]
               /\ log = <<>>
               /\ obs = NoObs
            \/ /\ pc = "active"
               /\ call = 1
               /\ sqltx = [id |-> 1, done |-> FALSE, pending |-> {}, ctxErr |-> Nil]
               /\ tx = [sqltx |-> 1, errMap |-> m]
               /\ log = <<"BeginTx", "fn">>
               /\ obs = [NoObs EXCEPT !.begin = Nil]

NextCustom ==
    \/ DBExec
    \/ DBQuery
    \/ DBQueryRowScan
    \/ DBPrepare
    \/ StmtExec
    \/ StmtQueryRowScan
    \/ TxExec
    \/ TxQuery
    \/ TxQueryRowScan
    \/ TxPrepare

SpecCustom == InitCustom /\ [][NextCustom]_vars

\* C40: a statement whose driver call succeeded returns nil whatever mapper
\* is installed (DB.Exec, DB.Query, Tx.Exec, Tx.Query, Stmt.Exec, Row.Scan)
C40_SuccessStaysNil ==
    (trace # <<>> /\ trace[Len(trace)].ev = "return" /\ Dispatched(trace)
        /\ DriverResult(trace) = Nil) => Returned(trace) = Nil

(***************************************************************************)
(* BatchExec: ExecTx with a body that prepares once and executes per item  *)
(***************************************************************************)
\* BatchExec(d, ctx, query, items, argsFn) with n items has been called
NewBatch(n) == [pc |-> "prepare", n |-> n, i |-> 1, execd |-> <<>>, failed |-> "none"]

\* the row item i of the batch writes in transaction t
BatchRow(t, i) == <<t, i>>
BatchRows == {BatchRow(1, i) : i \in 1..bt.n}

InitBatch ==
    /\ committed = {}
    /\ call = 0
    /\ pc = "idle"
    /\ sqltx = NoTx
    /\ err = Nil
    /\ panicking = NoPanic
    /\ fn = NewFn
    /\ trace = <<>>
    /\ log = <<>>
    /\ obs = NoObs
    /\ cfgHooks = ConfigHooks
    /\ db = NewDB
    /\ mp = NoMap
    /\ tm = NoCall
    /\ rt = NoRetry
    /\ qrow = NoRow
    /\ reg = NoRegistry
    /\ acc = NoAccess
    /\ \E m \in {DefaultErrorMapper, wrapAllMapper} :
         /\ errMap = m
         /\ tx = [sqltx |-> 0, errMap |-> m]
    /\ \E n \in 0..MaxItems : bt = NewBatch(n)

\* d.ExecTx(ctx, func(tx *Tx) error {...}): BatchExec makes one ExecTx call
BatchExecBegin == call = 0 /\ ExecTxBegin

\* a loop that goes on to the next item whatever Stmt.Exec returned
LoopAfterExecIgnoresErr(e) == "next"

\* if _, err := stmt.Exec(...); err != nil { return err }
LoopAfterExec(e) == IF e # Nil THEN "return" ELSE "next"

\* the body up to stmt, err := tx.Prepare(ctx, query); with no item the loop
\* is over at once and the body returns nil
BatchPrepare ==
    /\ pc = "active"
    /\ bt.pc = "prepare"
    /\ \E r \in TxOutcomes(sqltx, PrepareErrs) :
         LET e == mapErr(tx.errMap, r)
             run == RunPrepare("Tx.Prepare", tx.errMap,
                               <<[ev |-> "PrepareContext", err |-> r]>>,
                               <<[ev |-> "return", err |-> e]>>)
             over == e # Nil \/ bt.n = 0
         IN /\ trace' = run.trace
            /\ fn' = [stmts |-> fn.stmts + 1, lastErr |-> e]
            /\ bt' = [bt EXCEPT !.pc = IF over THEN "returned" ELSE "items",
                                !.failed = IF e # Nil THEN "prepare" ELSE @]
            /\ db' = [db EXCEPT !.stmt = IF r = Nil
                                         THEN [on |-> "Tx", errMap |-> tx.errMap] ELSE @]
            /\ err' = IF over THEN FnFailure(errMap, e) ELSE err
            /\ pc' = IF over THEN AfterFn(e) ELSE pc
            /\ obs' = IF over
                      THEN [obs EXCEPT !.fnRet = e,
                                       !.mapper = IF e = Nil THEN @ ELSE errMap]
                      ELSE obs
    /\ UNCHANGED <<errMap, committed, call, sqltx, tx, panicking, log, cfgHooks, mp,
                   tm, rt, qrow, reg, acc>>

\* one turn of the loop: stmt.Exec(ctx, argsFn(item)...) for item bt.i, then
\* the return of the error, the next item, or the return nil after the last
BatchItem ==
    /\ pc = "active"
    /\ bt.pc = "items"
    /\ \E r \in StmtOutcomes(db.stmt, sqltx, ExecErrs) :
         LET e == Map(db.stmt.errMap, r)
             run == RunStatement(newHookChain(cfgHooks), "Stmt.Exec", db.stmt.errMap,
                                 <<[ev |-> "ExecContext", err |-> r]>>, e,
                                 <<[ev |-> "return", err |-> e]>>)
             ok == r = Nil /\ Dispatched(run.trace)
             row == BatchRow(tx.sqltx, bt.i)
             ret == Returned(run.trace)
             over == LoopAfterExec(ret) = "return" \/ bt.i = bt.n
             res == IF LoopAfterExec(ret) = "return" THEN ret ELSE Nil
         IN /\ trace' = run.trace
            /\ fn' = [stmts |-> fn.stmts + 1, lastErr |-> ret]
            /\ sqltx' = IF ok THEN [sqltx EXCEPT !.pending = @ \cup {row}] ELSE sqltx
            /\ bt' = [bt EXCEPT !.execd = Append(@, bt.i),
                                !.i = @ + 1,
                                !.failed = IF ret # Nil /\ @ = "none" THEN "exec" ELSE @,
                                !.pc = IF over THEN "returned" ELSE "items"]
            /\ err' = IF over THEN FnFailure(errMap, res) ELSE err
            /\ pc' = IF over THEN AfterFn(res) ELSE pc
            /\ obs' = [obs EXCEPT !.wrote = IF ok THEN @ \cup {row} ELSE @,
                                  !.fnRet = IF over THEN res ELSE @,
                                  !.mapper = IF over /\ res # Nil THEN errMap ELSE @]
    /\ UNCHANGED <<errMap, committed, call, tx, panicking, log, cfgHooks, db, mp,
                   tm, rt, qrow, reg, acc>>

NextBatch ==
    \/ BatchExecBegin
    \/ ExecTxInvoke
    \/ CtxDone
    \/ AwaitDone
    \/ BatchPrepare
    \/ BatchItem
    \/ ExecTxCommit
    \/ ExecTxDeferred

SpecBatch == InitBatch /\ [][NextBatch]_vars

\* the items executed are 1, 2, ..., k in this order
InItemOrder == \A j \in 1..Len(bt.execd) : bt.execd[j] = j
\* every item was executed and no Prepare or Exec returned an error
AllExecuted == bt.failed = "none" /\ Len(bt.execd) = bt.n /\ bt.pc = "returned"
\* BatchExec has returned
BatchLeft == pc = "returned"

\* the parts of C31 that do not depend on Commit: one Prepare, the items in
\* order on that statement in one transaction, nothing after a failure, and
\* after a failure Rollback, a non-nil error and no write of the batch visible
BatchFailureAtomic ==
    /\ InItemOrder
    /\ call <= 1
    /\ bt.failed = "prepare" => bt.execd = <<>>
    /\ (bt.failed = "exec" /\ Len(bt.execd) >= 1) => fn.lastErr # Nil
    /\ bt.failed # "none" => bt.pc = "returned"
    /\ (BatchLeft /\ bt.failed # "none") =>
          /\ err # Nil
          /\ Attempted("Rollback")
          /\ sqltx.done
          /\ committed \cap BatchRows = {}

\* C31 as stated: all-or-nothing; when every execution succeeds all writes
\* are committed and BatchExec returns nil
C31_BatchAllOrNothing ==
    /\ BatchFailureAtomic
    /\ (BatchLeft /\ obs.begin = Nil /\ AllExecuted) =>
          /\ err = Nil
          /\ BatchRows \subseteq committed

\* C31 amended: when every execution and Commit succeed all writes are
\* committed and BatchExec returns nil; when BeginTx, Prepare, an execution
\* or Commit fails the result is a non-nil error and no write of the batch
\* is visible
C31_BatchAllOrNothingIfCommit ==
    /\ BatchFailureAtomic
    /\ (BatchLeft /\ obs.begin = Nil /\ AllExecuted /\ obs.commit = Nil) =>
          /\ err = Nil
          /\ BatchRows \subseteq committed
    /\ (BatchLeft /\ (obs.begin # Nil \/ obs.commit \notin {Nil, NotCalled})) =>
          /\ err # Nil
          /\ committed \cap BatchRows = {}
    /\ BatchLeft => (committed \cap BatchRows = {} \/ BatchRows \subseteq committed)

\* the second of several items failed after the first had written its row
C31_Witness ==
    /\ BatchLeft
    /\ bt.n = MaxItems
    /\ bt.failed = "exec"
    /\ bt.execd = <<1, 2>>
    /\ BatchRow(1, 1) \in obs.wrote
    /\ committed = {}
    /\ err # Nil

(***************************************************************************)
(* userRepo.BatchInsert on a Querier that is the *DB or a *Tx              *)
(***************************************************************************)
\* BatchInsert(ctx, params) with n params on a repository whose q is the DB
\* itself or the Tx of an ExecTx body that returns what BatchInsert returns
NewBatchInsert(q, n) ==
    [pc |-> "prepare", q |-> q, n |-> n, i |-> 1, execd |-> <<>>, failed |-> "none",
     result |-> Nil]

\* what an INSERT ... RETURNING through (*sql.Row).Scan can report
InsertErrs == ExecErrs \cup {badConn}

InitRepo ==
    /\ errMap = DefaultErrorMapper
    /\ committed = {}
    /\ call = 0
    /\ pc = "idle"
    /\ sqltx = NoTx
    /\ tx = [sqltx |-> 0, errMap |-> DefaultErrorMapper]
    /\ err = Nil
    /\ panicking = NoPanic
    /\ fn = NewFn
    /\ trace = <<>>
    /\ log = <<>>
    /\ obs = NoObs
    /\ cfgHooks = ConfigHooks
    /\ db = NewDB
    /\ mp = NoMap
    /\ tm = NoCall
    /\ rt = NoRetry
    /\ qrow = NoRow
    /\ reg = NoRegistry
    /\ acc = NoAccess
    /\ \E q \in {"DB", "Tx"}, n \in 0..MaxItems : bt = NewBatchInsert(q, n)

\* d.ExecTx(ctx, func(tx *Tx) error { _, err := NewUserRepo(tx).BatchInsert(...); return err })
RepoExecTxBegin == bt.q = "Tx" /\ call = 0 /\ ExecTxBegin

\* BatchInsert may run: on the DB at any time, on a Tx inside the body
RepoRunning == IF bt.q = "DB" THEN pc = "idle" ELSE pc = "active"

\* BatchInsert returns e; on a Tx the body returns e to ExecTxOpts
RepoReturn(e) ==
    /\ err' = IF bt.q = "Tx" THEN FnFailure(errMap, e) ELSE err
    /\ pc' = IF bt.q = "Tx" THEN AfterFn(e) ELSE pc
    /\ obs' = IF bt.q = "Tx"
              THEN [obs EXCEPT !.fnRet = e, !.mapper = IF e = Nil THEN @ ELSE errMap]
              ELSE obs

\* BatchInsert up to r.q.Prepare; with no params it returns nil, nil before that
RepoPrepare ==
    /\ RepoRunning
    /\ bt.pc = "prepare"
    /\ IF bt.n = 0
       THEN /\ bt' = [bt EXCEPT !.pc = "returned"]
            /\ RepoReturn(Nil)
            /\ UNCHANGED <<trace, db>>
       ELSE \E r \in (IF bt.q = "Tx" THEN TxOutcomes(sqltx, PrepareErrs)
                       ELSE {Nil} \cup PrepareErrs) :
              LET m == IF bt.q = "Tx" THEN tx.errMap ELSE errMap
                  e == mapErr(m, r)
              IN /\ trace' = RunPrepare(IF bt.q = "Tx" THEN "Tx.Prepare" ELSE "DB.Prepare",
                                        m, <<[ev |-> "PrepareContext", err |-> r]>>,
                                        <<[ev |-> "return", err |-> e]>>).trace
                 /\ db' = [db EXCEPT !.stmt = IF r = Nil
                                              THEN [on |-> bt.q, errMap |-> m] ELSE @]
                 /\ bt' = [bt EXCEPT !.pc = IF e # Nil THEN "returned" ELSE "items",
                                     !.failed = IF e # Nil THEN "prepare" ELSE @,
                                     !.result = e]
                 /\ IF e # Nil THEN RepoReturn(e) ELSE UNCHANGED <<err, pc, obs>>
    /\ UNCHANGED <<errMap, committed, call, sqltx, tx, panicking, fn, log, cfgHooks, mp,
                   tm, rt, qrow, reg, acc>>

\* one turn of the loop: stmt.QueryRow(...), scanUser(row), and the return
\* that follows a failure or the last param
RepoInsert ==
    /\ RepoRunning
    /\ bt.pc = "items"
    /\ \E r \in StmtOutcomes(db.stmt, sqltx, InsertErrs) :
         LET s == Map(db.stmt.errMap, r)
             e == IF s # Nil THEN RepoUserError(s) ELSE Nil
             run == RunStatement(newHookChain(cfgHooks), "Stmt.QueryRow", db.stmt.errMap,
                                 <<[ev |-> "QueryRowContext", err |-> Nil]>>, Nil,
                                 <<[ev |-> "Scan", err |-> r], [ev |-> "return", err |-> s]>>)
             row == BatchRow(tx.sqltx, bt.i)
             over == e # Nil \/ bt.i = bt.n
         IN /\ trace' = run.trace
            /\ committed' = IF r = Nil /\ bt.q = "DB" THEN committed \cup {row} ELSE committed
            /\ sqltx' = IF r = Nil /\ bt.q = "Tx"
                        THEN [sqltx EXCEPT !.pending = @ \cup {row}] ELSE sqltx
            /\ bt' = [bt EXCEPT !.execd = Append(@, bt.i),
                                !.i = @ + 1,
                                !.failed = IF e # Nil THEN "exec" ELSE @,
                                !.result = e,
                                !.pc = IF over THEN "returned" ELSE "items"]
            /\ IF over THEN RepoReturn(e) ELSE UNCHANGED <<err, pc, obs>>
    /\ UNCHANGED <<errMap, call, tx, panicking, fn, log, cfgHooks, db, mp,
                   tm, rt, qrow, reg, acc>>

NextRepo ==
    \/ RepoExecTxBegin
    \/ ExecTxInvoke
    \/ CtxDone
    \/ AwaitDone
    \/ RepoPrepare
    \/ RepoInsert
    \/ ExecTxCommit
    \/ ExecTxDeferred

SpecRepo == InitRepo /\ [][NextRepo]_vars

\* the rows params 1..n insert, through the DB or in transaction 1
RepoRows == {BatchRow(IF bt.q = "DB" THEN 0 ELSE 1, i) : i \in 1..bt.n}
\* BatchInsert has returned and, on a Tx, so has the ExecTx around it
RepoSettled == bt.pc = "returned" /\ (bt.q = "Tx" => pc = "returned")

\* C32: BatchInsert inserts all rows or none: when the insert of row k fails
\* it returns an error and rows 1..k-1 are not in the table afterwards,
\* whether the repository is backed by the DB or by a Tx
C32_BatchInsertAtomic ==
    (RepoSettled /\ bt.failed = "exec") =>
        /\ bt.result # Nil
        /\ committed \cap RepoRows = {}

(***************************************************************************)
(* Statements with the built-in tracing hook and composite hooks           *)
(***************************************************************************)
\* Config.Hooks with NewTracingHook(t) and CompositeHook(...) values
BuiltinHookLists ==
    {<<"tracing">>, <<"counting", "tracing">>, <<"tracing", "panicking">>}
       \cup {<<k>> : k \in CompositeKinds}
       \cup {<<k, "counting">> : k \in CompositeKinds}

InitBuiltinHooks ==
    /\ errMap = DefaultErrorMapper
    /\ committed = {}
    /\ err = Nil
    /\ panicking = NoPanic
    /\ fn = NewFn
    /\ trace = <<>>
    /\ cfgHooks \in BuiltinHookLists
    /\ db = NewDB
    /\ mp = NoMap
    /\ tm = NoCall
    /\ rt = NoRetry
    /\ qrow = NoRow
    /\ bt = NoBatch
    /\ reg = NoRegistry
    /\ acc = NoAccess
    /\ \/ /\ pc = "idle"
          /\ call = 0
          /\ sqltx = NoTx
          /\ tx = [sqltx |-> 0, errMap |-> DefaultErrorMapper]
          /\ log = <<>>
          /\ obs = NoObs
       \/ /\ pc = "active"
          /\ call = 1
          /\ sqltx = [id |-> 1, done |-> FALSE, pending |-> {}, ctxErr |-> Nil]
          /\ tx = [sqltx |-> 1, errMap |-> DefaultErrorMapper]
          /\ log = <<"BeginTx", "fn">>
          /\ obs = [NoObs EXCEPT !.begin = Nil]

SpecBuiltinHooks == InitBuiltinHooks /\ [][NextCustom]_vars

\* the statement of the trace is over and its caller has the result
Completed(t) == t # <<>> /\ t[Len(t)].ev = "return"
\* positions in the configured list of the hooks of a kind
HooksOfKind(kinds) == {i \in 1..Len(cfgHooks) : cfgHooks[i] \in kinds}

\* C33: with a TracingHook installed every statement has exactly one
\* StartSpan, before the driver is called, and exactly one EndSpan, after the
\* driver call, given StartSpan's context and the statement's error
C33_SpanAroundStatement ==
    Completed(trace) =>
        \A h \in HooksOfKind({"tracing"}) :
            LET starts == {i \in At(trace, "StartSpan") : trace[i].hook = h}
                ends == {i \in At(trace, "EndSpan") : trace[i].hook = h}
            IN /\ Cardinality(starts) = 1
               /\ Cardinality(ends) = 1
               /\ \A i \in starts, d \in DispatchAt(trace) : i < d
               /\ \A i \in ends, d \in DispatchAt(trace) : d < i
               /\ \A i \in ends : /\ trace[i].ctx = "spanCtx"
                                   /\ trace[i].err = Returned(trace)

\* C36: a panicking child of a CompositeHook does not keep the other children
\* of that composite from running in BeforeQuery and AfterQuery, a nil child
\* is skipped, and the statement completes
C36_CompositeIsolated ==
    (trace # <<>> /\ OpOf(trace) \notin {"DB.Prepare", "Tx.Prepare"}) =>
        /\ Completed(trace)
        /\ \A h \in HooksOfKind(CompositeKinds) :
              \A j \in 1..Len(CompositeChildren(cfgHooks[h])) :
                  CompositeChildren(cfgHooks[h])[j] # "nil" =>
                      /\ \E i \in At(trace, "child.BeforeQuery") :
                            trace[i].hook = h /\ trace[i].child = j
                      /\ \E i \in At(trace, "child.AfterQuery") :
                            trace[i].hook = h /\ trace[i].child = j

(***************************************************************************)
(* The driver registry: drivers, driversMu and the goroutines calling it   *)
(***************************************************************************)
Goroutines == {"g1", "g2"}
NoDriver == [name |-> "", impl |-> "none"]
\* the drivers init registers, in its order
BuiltinDrivers == <<[name |-> "postgres", impl |-> "PostgresDriver"],
                    [name |-> "mysql", impl |-> "MySQLDriver"],
                    [name |-> "sqlite3", impl |-> "SQLiteDriver"]>>
\* drivers callers pass to RegisterDriver and ReplaceDriver
CallerDrivers == {[name |-> "postgres", impl |-> "PgxDriver"],
                  [name |-> "crdb", impl |-> "CockroachDriver"],
                  [name |-> "crdb", impl |-> "CockroachDriverV2"]}
DriverNames == {"postgres", "mysql", "sqlite3", "crdb", "oracle"}
RegistryCalls ==
    {[op |-> o, d |-> d, name |-> d.name] : o \in {"RegisterDriver", "ReplaceDriver"},
                                            d \in CallerDrivers}
       \cup {[op |-> "LookupDriver", d |-> NoDriver, name |-> "postgres"],
             [op |-> "LookupDriver", d |-> NoDriver, name |-> "crdb"],
             [op |-> "LookupDriver", d |-> NoDriver, name |-> "oracle"]}

IdleCall == [pc |-> "idle", op |-> "none"]

\* a RegisterDriver that stores d over a driver of the same name
RegisterDriverOverwrites(m, d) ==
    [drivers |-> [m EXCEPT ![d.name] = d], result |-> "ok", got |-> NoDriver]

\* RegisterDriver between Lock and Unlock
RegisterDriverBody(m, d) ==
    IF m[d.name] # NoDriver
    THEN [drivers |-> m, result |-> "panic", got |-> NoDriver]
    ELSE [drivers |-> [m EXCEPT ![d.name] = d], result |-> "ok", got |-> NoDriver]

\* ReplaceDriver between Lock and Unlock
ReplaceDriverBody(m, d) ==
    [drivers |-> [m EXCEPT ![d.name] = d], result |-> "ok", got |-> NoDriver]

\* LookupDriver between RLock and RUnlock
LookupDriverBody(m, name) ==
    IF m[name] = NoDriver
    THEN [drivers |-> m, result |-> "error", got |-> NoDriver]
    ELSE [drivers |-> m, result |-> "ok", got |-> m[name]]

\* an RLock that does not wait for the writer
CanRLockAlways(r) == TRUE

\* driversMu.RLock() can return: no goroutine holds the write lock
CanRLock(r) == r.writer = "none"

\* driversMu.Lock() can return: nobody holds the lock in either mode
CanLock(r) == r.writer = "none" /\ r.readers = {}

\* the package before its init function has run
InitRegistry ==
    /\ errMap = DefaultErrorMapper
    /\ committed = {}
    /\ call = 0
    /\ pc = "idle"
    /\ sqltx = NoTx
    /\ tx = [sqltx |-> 0, errMap |-> DefaultErrorMapper]
    /\ err = Nil
    /\ panicking = NoPanic
    /\ fn = NewFn
    /\ trace = <<>>
    /\ log = <<>>
    /\ obs = NoObs
    /\ cfgHooks = ConfigHooks
    /\ db = NewDB
    /\ mp = NoMap
    /\ tm = NoCall
    /\ rt = NoRetry
    /\ qrow = NoRow
    /\ bt = NoBatch
    /\ acc = NoAccess
    /\ reg = [pc |-> "init", inited |-> 0,
              drivers |-> [n \in DriverNames |-> NoDriver],
              writer |-> "none", readers |-> {},
              stored |-> [n \in DriverNames |-> NoDriver],
              g |-> [p \in Goroutines |-> IdleCall]]

\* init: the next safeRegister(d), that is RegisterDriver(d) with its panic
\* recovered; no other goroutine runs before init is over
PackageInit ==
    /\ reg.pc = "init"
    /\ LET d == BuiltinDrivers[reg.inited + 1]
           r == RegisterDriverBody(reg.drivers, d)
       IN reg' = [reg EXCEPT !.drivers = r.drivers,
                             !.stored = IF r.result = "ok" THEN [@ EXCEPT ![d.name] = d] ELSE @,
                             !.inited = @ + 1,
                             !.pc = IF reg.inited + 1 = Len(BuiltinDrivers)
                                    THEN "running" ELSE "init"]
    /\ UNCHANGED <<errMap, committed, call, pc, sqltx, tx, err, panicking, fn, trace,
                   log, obs, cfgHooks, db, mp, tm, rt, qrow, bt, acc>>

\* goroutine p calls RegisterDriver, ReplaceDriver or LookupDriver and
\* reaches driversMu.Lock() / RLock()
RegistryCall(p) ==
    /\ reg.pc = "running"
    /\ reg.g[p].pc = "idle"
    /\ \E c \in RegistryCalls :
         reg' = [reg EXCEPT !.g[p] = [pc |-> "waiting", op |-> c.op, d |-> c.d,
                                      name |-> c.name]]
    /\ UNCHANGED <<errMap, committed, call, pc, sqltx, tx, err, panicking, fn, trace,
                   log, obs, cfgHooks, db, mp, tm, rt, qrow, bt, acc>>

\* driversMu.Lock() or RLock() returns in goroutine p
RegistryLock(p) ==
    /\ reg.g[p].pc = "waiting"
    /\ IF reg.g[p].op = "LookupDriver"
       THEN /\ CanRLock(reg)
            /\ reg' = [reg EXCEPT !.readers = @ \cup {p}, !.g[p].pc = "locked"]
       ELSE /\ CanLock(reg)
            /\ reg' = [reg EXCEPT !.writer = p, !.g[p].pc = "locked"]
    /\ UNCHANGED <<errMap, committed, call, pc, sqltx, tx, err, panicking, fn, trace,
                   log, obs, cfgHooks, db, mp, tm, rt, qrow, bt, acc>>

\* the body of the call in goroutine p: the map is read and written
RegistryAccess(p) ==
    /\ reg.g[p].pc = "locked"
    /\ LET c == reg.g[p]
           r == CASE c.op = "RegisterDriver" -> RegisterDriverBody(reg.drivers, c.d)
                  [] c.op = "ReplaceDriver" -> ReplaceDriverBody(reg.drivers, c.d)
                  [] c.op = "LookupDriver" -> LookupDriverBody(reg.drivers, c.name)
           wrote == c.op # "LookupDriver" /\ r.result = "ok"
       IN reg' = [reg EXCEPT !.drivers = r.drivers,
                             !.stored = IF wrote THEN [@ EXCEPT ![c.name] = c.d] ELSE @,
                             !.g[p] = [pc |-> "unlocking", op |-> c.op, d |-> c.d,
                                       name |-> c.name, result |-> r.result,
                                       got |-> r.got, before |-> reg.drivers[c.name],
                                       last |-> reg.stored[c.name],
                                       after |-> r.drivers[c.name]]]
    /\ UNCHANGED <<errMap, committed, call, pc, sqltx, tx, err, panicking, fn, trace,
                   log, obs, cfgHooks, db, mp, tm, rt, qrow, bt, acc>>

\* the deferred Unlock / RUnlock, on return and on panic alike; the call is over
RegistryUnlock(p) ==
    /\ reg.g[p].pc = "unlocking"
    /\ reg' = [reg EXCEPT !.writer = IF @ = p THEN "none" ELSE @,
                          !.readers = @ \ {p},
                          !.g[p].pc = "idle"]
    /\ UNCHANGED <<errMap, committed, call, pc, sqltx, tx, err, panicking, fn, trace,
                   log, obs, cfgHooks, db, mp, tm, rt, qrow, bt, acc>>

NextRegistry ==
    \/ PackageInit
    \/ \E p \in Goroutines : RegistryCall(p)
    \/ \E p \in Goroutines : RegistryLock(p)
    \/ \E p \in Goroutines : RegistryAccess(p)
    \/ \E p \in Goroutines : RegistryUnlock(p)

SpecRegistry == InitRegistry /\ [][NextRegistry]_vars

\* goroutine p has a call of op behind it whose body ran
Did(p, op) == reg.g[p].op = op /\ reg.g[p].pc \in {"unlocking", "idle"}
\* goroutines inside a body, between lock and unlock
Inside == {p \in Goroutines : reg.g[p].pc \in {"locked", "unlocking"}}

\* C34: RegisterDriver of a registered name panics, leaves the registry as it
\* was and releases the lock; ReplaceDriver never panics and makes the name
\* resolve to its driver; LookupDriver of an unregistered name gives an error
\* and no driver
C34_RegisterPanicsReplaceUpserts ==
    /\ \A p \in Goroutines :
          /\ Did(p, "RegisterDriver") =>
                IF reg.g[p].before # NoDriver
                THEN reg.g[p].result = "panic" /\ reg.g[p].after = reg.g[p].before
                ELSE reg.g[p].result = "ok" /\ reg.g[p].after = reg.g[p].d
          /\ Did(p, "ReplaceDriver") =>
                reg.g[p].result = "ok" /\ reg.g[p].after = reg.g[p].d
          /\ Did(p, "LookupDriver") =>
                IF reg.g[p].before = NoDriver
                THEN reg.g[p].result = "error" /\ reg.g[p].got = NoDriver
                ELSE reg.g[p].result = "ok" /\ reg.g[p].got = reg.g[p].before
          /\ reg.g[p].pc = "idle" => (reg.writer # p /\ p \notin reg.readers)
    /\ Inside = {} => CanLock(reg)

\* a RegisterDriver of a name init registered has panicked and returned, and
\* the built-in driver is still there with the lock free
C34_Witness ==
    \E p \in Goroutines :
        /\ reg.g[p].pc = "idle"
        /\ reg.g[p].op = "RegisterDriver"
        /\ reg.g[p].result = "panic"
        /\ reg.drivers["postgres"] = BuiltinDrivers[1]
        /\ CanLock(reg)

\* C39: registry accesses exclude each other (a writer excludes readers and
\* writers), a registered name stays registered, LookupDriver returns the
\* driver stored last under the name, and after init the built-in drivers
\* are registered
C39_RegistryConsistent ==
    /\ \A p, q \in Inside :
          (p # q) => (reg.g[p].op = "LookupDriver" /\ reg.g[q].op = "LookupDriver")
    /\ \A n \in DriverNames : reg.stored[n] # NoDriver => reg.drivers[n] = reg.stored[n]
    /\ \A p \in Goroutines :
          (Did(p, "LookupDriver") /\ reg.g[p].last # NoDriver) =>
              (reg.g[p].result = "ok" /\ reg.g[p].got = reg.g[p].last)
    /\ reg.pc = "running" =>
          \A i \in 1..Len(BuiltinDrivers) : reg.drivers[BuiltinDrivers[i].name] # NoDriver

\* one goroutine waits for the lock while another is inside ReplaceDriver,
\* which has replaced a built-in driver
C39_Witness ==
    \E p, q \in Goroutines :
        /\ reg.g[p].pc = "unlocking"
        /\ reg.g[p].op = "ReplaceDriver"
        /\ reg.g[p].before = BuiltinDrivers[1]
        /\ reg.drivers["postgres"] = reg.g[p].d
        /\ reg.g[q].pc = "waiting"
        /\ reg.g[q].op = "LookupDriver"

(***************************************************************************)
(* One DB handle shared by goroutines: the accesses its methods make to    *)
(* the fields of the DB struct                                             *)
(***************************************************************************)
Read(f) == [field |-> f, mode |-> "read"]
Write(f) == [field |-> f, mode |-> "write"]
\* an interface value read while it was being written: the type word of one
\* mapper with the data word of another
TornMapper == [kind |-> "torn"]
SetMappers == {DefaultErrorMapper, wrapAllMapper}

\* the calls of one goroutine: the method, how the driver answers, and for
\* SetErrorMapper the mapper passed
DBMethodCalls ==
    {[op |-> o, outcome |-> r, m |-> DefaultErrorMapper] :
        o \in {"Exec", "Query", "Prepare", "ExecTx"}, r \in {"ok", "err"}}
      \cup {[op |-> "QueryRow", outcome |-> "ok", m |-> DefaultErrorMapper],
            [op |-> "ExecTx", outcome |-> "beginErr", m |-> DefaultErrorMapper]}
      \cup {[op |-> "SetErrorMapper", outcome |-> "ok", m |-> m] : m \in SetMappers}

\* applyDefaultTimeout reads d.cfg.DefaultTimeout
applyDefaultTimeoutAccesses == <<Read("cfg")>>
\* mapErr reads d.errMap only when the error is not nil
mapErrAccesses(outcome) == IF outcome = "ok" THEN <<>> ELSE <<Read("errMap")>>

\* the accesses of a method to the fields of d, in program order
FieldAccesses(op, outcome) ==
    CASE op \in {"Exec", "Query"} ->
           applyDefaultTimeoutAccesses \o <<Read("hooks")>> \o mapErrAccesses(outcome)
              \o <<Read("hooks")>>
      [] op = "QueryRow" ->
           applyDefaultTimeoutAccesses \o <<Read("hooks"), Read("hooks"), Read("errMap")>>
      [] op = "Prepare" ->
           applyDefaultTimeoutAccesses \o
              (IF outcome = "err" THEN mapErrAccesses(outcome)
               ELSE <<Read("hooks"), Read("errMap")>>)
      [] op = "ExecTx" ->
           applyDefaultTimeoutAccesses \o
              (IF outcome = "beginErr" THEN mapErrAccesses(outcome)
               ELSE <<Read("hooks"), Read("errMap"), Read("cfg")>>
                       \o mapErrAccesses(outcome))
      [] op = "SetErrorMapper" -> <<Write("errMap")>>

IdleAccess == [pc |-> "idle"]

\* the access goroutine p makes next
NextAccessOf(p) == FieldAccesses(acc.g[p].op, acc.g[p].outcome)[acc.g[p].k]
AtAccess(p) ==
    /\ acc.g[p].pc = "running"
    /\ acc.g[p].k <= Len(FieldAccesses(acc.g[p].op, acc.g[p].outcome))
\* p and q are both about to access the same field, one of them writing,
\* and nothing orders the two accesses
Races(p, q) ==
    /\ p # q
    /\ AtAccess(p)
    /\ AtAccess(q)
    /\ NextAccessOf(p).field = NextAccessOf(q).field
    /\ "write" \in {NextAccessOf(p).mode, NextAccessOf(q).mode}

\* what a read of d.errMap by p can give: the stored mapper, or, racing with
\* a write, the mapper being written or a torn interface value
ReadValues(p) ==
    {acc.errMap} \cup
        UNION {{acc.g[q].m, TornMapper} : q \in {q \in Goroutines : Races(p, q)}}

InitConcurrent ==
    /\ errMap = DefaultErrorMapper
    /\ committed = {}
    /\ call = 0
    /\ pc = "idle"
    /\ sqltx = NoTx
    /\ tx = [sqltx |-> 0, errMap |-> DefaultErrorMapper]
    /\ err = Nil
    /\ panicking = NoPanic
    /\ fn = NewFn
    /\ trace = <<>>
    /\ log = <<>>
    /\ obs = NoObs
    /\ cfgHooks = ConfigHooks
    /\ db = NewDB
    /\ mp = NoMap
    /\ tm = NoCall
    /\ rt = NoRetry
    /\ qrow = NoRow
    /\ bt = NoBatch
    /\ reg = NoRegistry
    /\ acc = [errMap |-> DefaultErrorMapper, g |-> [p \in Goroutines |-> IdleAccess]]

\* goroutine p calls a method of the shared DB
ConcurrentCall(p) ==
    /\ acc.g[p].pc = "idle"
    /\ \E c \in DBMethodCalls :
         acc' = [acc EXCEPT !.g[p] = [pc |-> "running", op |-> c.op, outcome |-> c.outcome,
                                      m |-> c.m, k |-> 1, seen |-> <<>>]]
    /\ UNCHANGED <<errMap, committed, call, pc, sqltx, tx, err, panicking, fn, trace,
                   log, obs, cfgHooks, db, mp, tm, rt, qrow, bt, reg>>

\* goroutine p makes its next access to a field of d; no lock is taken
ConcurrentAccess(p) ==
    /\ AtAccess(p)
    /\ LET a == NextAccessOf(p)
       IN IF a.mode = "write"
          THEN acc' = [acc EXCEPT !.errMap = acc.g[p].m, !.g[p].k = @ + 1]
          ELSE IF a.field = "errMap"
          THEN \E v \in ReadValues(p) :
                  acc' = [acc EXCEPT !.g[p].k = @ + 1, !.g[p].seen = Append(@, v)]
          ELSE acc' = [acc EXCEPT !.g[p].k = @ + 1]
    /\ UNCHANGED <<errMap, committed, call, pc, sqltx, tx, err, panicking, fn, trace,
                   log, obs, cfgHooks, db, mp, tm, rt, qrow, bt, reg>>

\* the method returns in goroutine p
ConcurrentReturn(p) ==
    /\ acc.g[p].pc = "running"
    /\ ~AtAccess(p)
    /\ acc' = [acc EXCEPT !.g[p] = IdleAccess]
    /\ UNCHANGED <<errMap, committed, call, pc, sqltx, tx, err, panicking, fn, trace,
                   log, obs, cfgHooks, db, mp, tm, rt, qrow, bt, reg>>

NextConcurrent ==
    \/ \E p \in Goroutines : ConcurrentCall(p)
    \/ \E p \in Goroutines : ConcurrentAccess(p)
    \/ \E p \in Goroutines : ConcurrentReturn(p)

SpecConcurrent == InitConcurrent /\ [][NextConcurrent]_vars

\* C35: under every interleaving of concurrent method calls on one DB, no
\* field of the DB is written by one call while another call reads or
\* writes it without synchronisation
C35_NoUnsynchronisedWrite == \A p, q \in Goroutines : ~Races(p, q)

====
